---- MODULE Spec2Model ----
(***************************************************************************)
(* WebshopManager (frontend dashboard): the local mirror of a webshop's    *)
(* orders and tickets in IndexedDB, the incremental refresh of both        *)
(* streams and the outbox of ticket patches.                               *)
(*                                                                         *)
(* JavaScript runs one handler at a time: an action below is one handler,  *)
(* from the event that resumes it (a call, a network response, the         *)
(* completion of an IndexedDB transaction) to its next await.  Pending     *)
(* IndexedDB transactions wait in txq, requests on the wire in net, and    *)
(* the callers of getDatabase that wait for the database to open in        *)
(* waiting.                                                                *)
(***************************************************************************)
EXTENDS Integers, Sequences, FiniteSets, TLC

----------------------------------------------------------------------------
(* Bounds of the model *)

\* calls of the public methods made by the application
MaxCalls == 3
\* orders that exist on the server
NumOrders == 3
\* items the server puts in one page
PageSize == 2
\* calls of the refresh methods over the restarts of the process, and calls
\* beside a server that changes
MaxRefreshes == 2
\* code units of a message given to Sodium
MaxLen == 2
\* members of a batch given to MemberManager
MaxBatch == 2
\* ids chosen in a filter, and values of an object
MaxChoices == 2
\* methods of Sodium that await at a time
MaxPending == 2

----------------------------------------------------------------------------
(* Data *)

Streams == {"orders", "tickets"}
Secrets == {"A", "B"}
PatchVals == {1, 2}

\* a ticket patch: the secret of the ticket and the changed field
Patches == [secret : Secrets, val : PatchVals]

\* lastFetchedOrder / lastFetchedTicket: undefined, null or {updatedAt, number|id}
Undefined == [kind |-> "undefined", updatedAt |-> 0, tie |-> 0]
Null == [kind |-> "null", updatedAt |-> 0, tie |-> 0]

\* WebshopOrdersQuery / WebshopTicketsQuery; NoQuery is response.next = null
EmptyQuery == [kind |-> "all", updatedSince |-> 0, tie |-> 0]
NoQuery == [kind |-> "none", updatedSince |-> 0, tie |-> 0]

SettingKey(stream) == IF stream = "orders" THEN "lastFetchedOrder" ELSE "lastFetchedTicket"
SettingKeys == {SettingKey(s) : s \in Streams}

\* the result of IDBObjectStore.get for a key that is not in the store
Absent == [kind |-> "absent", updatedAt |-> 0, tie |-> 0]

NoItems == << >>
NoBody == {}

\* no call of Sodium or MemberManager was made
NoCall == [fn |-> "none"]

VARIABLES
    lastFetchedOrder,       \* WebshopManager.lastFetchedOrder
    lastFetchedTicket,      \* WebshopManager.lastFetchedTicket
    isLoadingOrders,        \* WebshopManager.isLoadingOrders
    isLoadingTickets,       \* WebshopManager.isLoadingTickets
    savingTicketPatches,    \* WebshopManager.savingTicketPatches
    orders,                 \* object store "orders", keyPath id
    tickets,                \* object store "tickets", keyPath secret
    ticketPatches,          \* object store "ticketPatches", keyPath secret
    settings,               \* object store "settings", out-of-line keys
    database,               \* WebshopManager.database is set: the connection is open
    databasePromise,        \* WebshopManager.databasePromise: null, pending or rejected
    waiting,                \* the transactions of the callers that await databasePromise, by call
    opens,                  \* history: the calls of indexedDB.open this manager has made
    txq,                    \* IndexedDB transactions created and not yet finished, oldest first
    net,                    \* requests sent and not yet answered
    srvVal,                 \* the server's tickets: the patched field of each
    srvOrders,              \* the server's orders: the updatedAt of each
    calls,                  \* calls made so far
    fetched,                \* history: the pages received by the refresh loops
    delivered,              \* history: patches the server has acknowledged
    lastEnq,                \* history: per secret, the patch given to addTicketPatch last,
                            \* 0 once it was acknowledged or a write of the secret was lost
    answered,               \* history: secrets of the finished flushes' responses, not enqueued since
    acked,                  \* history: those of them whose response was stored
    last,                   \* history: the handler that ran last and what its caller saw
    diskVersion,            \* the version of the database on disk, 0 when there is none
    objectStores,           \* the object stores of the database on disk
    loaded,                 \* SodiumStatic.loaded
    call,                   \* the call of Sodium or MemberManager whose promise settled last
    ret,                    \* what that call returned or threw
    sodiumReady,            \* the promise sodium.ready has resolved
    readyWait,              \* the methods that await sodium.ready while it has not
                            \* resolved, in the order of their awaits
    jobs,                   \* the continuations queued to run, first to run first
    sessionWait,            \* the methods that await the session: the request of
                            \* the members, decryptKeychainItem
    listening               \* the pages of the calls of patchOrders that await the
                            \* listeners of ordersEventBus

vars == << lastFetchedOrder, lastFetchedTicket, isLoadingOrders, isLoadingTickets,
           savingTicketPatches, orders, tickets, ticketPatches, settings, database,
           databasePromise, waiting, opens, txq, net, srvVal, calls, fetched, delivered,
           lastEnq, answered, acked, last, diskVersion, objectStores, loaded, call, ret,
           srvOrders, sodiumReady, readyWait, jobs, sessionWait, listening >>

mgrVars == << lastFetchedOrder, lastFetchedTicket, isLoadingOrders, isLoadingTickets,
              savingTicketPatches >>
\* the connection and the object stores behind it
dbVars == << database, orders, tickets, ticketPatches, settings >>
\* the transactions: those that wait for the connection and those created
idbVars == << databasePromise, waiting, opens, txq >>
histVars == << fetched, delivered, lastEnq, answered, acked >>
\* the state of Sodium and of the calls made last
sodiumVars == << loaded, call, ret, sodiumReady, readyWait, jobs, sessionWait >>
\* what the webshop handlers other than the open of the database and
\* patchOrders leave alone
diskVars == << diskVersion, objectStores, srvOrders, sodiumVars >>
auxVars == << diskVars, listening >>
\* what the handlers that change the disk or the server leave alone
callVars == << sodiumVars, listening >>

----------------------------------------------------------------------------
(* Sequences *)

Last(s) == s[Len(s)]
Remove(s, i) == SubSeq(s, 1, i - 1) \o SubSeq(s, i + 1, Len(s))
Replace(s, i, x) == [s EXCEPT ![i] = x]
Range(s) == {s[i] : i \in DOMAIN s}
Prefix(s, n) == SubSeq(s, 1, IF Len(s) < n THEN Len(s) ELSE n)

----------------------------------------------------------------------------
(* The server *)

\* the orders of the webshop, in the server's order (updatedAt, number)
ServerOrder(i) == [id |-> i, number |-> i, updatedAt |-> (i + 1) \div 2]
ServerOrders == [i \in 1..NumOrders |-> ServerOrder(i)]

\* the orders of the webshop when the order of number i was last updated at
\* updatedAt[i], in the server's order (updatedAt, number)
ServerOrdersAt(updatedAt) ==
    LET Rank(i) == Cardinality({j \in 1..NumOrders :
                                   \/ updatedAt[j] < updatedAt[i]
                                   \/ updatedAt[j] = updatedAt[i] /\ j <= i})
    IN  [k \in 1..NumOrders |->
            LET i == CHOOSE i \in 1..NumOrders : Rank(i) = k
            IN  [ServerOrder(i) EXCEPT !.updatedAt = updatedAt[i]]]

\* the time of the server: the latest update
ServerClock(updatedAt) ==
    CHOOSE t \in Range(updatedAt) : \A i \in DOMAIN updatedAt : updatedAt[i] <= t

\* the tickets of the webshop, in the server's order (updatedAt, id)
TicketId(secret) == IF secret = "A" THEN 2 ELSE 1
ServerTicket(secret, val) ==
    [id |-> TicketId(secret), secret |-> secret, updatedAt |-> 1, val |-> val]
ServerTickets(vals) == << ServerTicket("B", vals["B"]), ServerTicket("A", vals["A"]) >>

\* the tie-break field of an item in the server's pagination
TieOf(stream, item) == IF stream = "orders" THEN item.number ELSE item.id

IsAfter(stream, item, query) ==
    \/ query.kind = "all"
    \/ /\ query.kind = "after"
       /\ \/ item.updatedAt > query.updatedSince
          \/ item.updatedAt = query.updatedSince /\ TieOf(stream, item) > query.tie

\* GET /webshop/:id/orders and /tickets/private: {results, next}
ServerPage(stream, items, query) ==
    LET rest == SelectSeq(items, LAMBDA it : IsAfter(stream, it, query))
        results == Prefix(rest, PageSize)
    IN  [ results |-> results,
          next |-> IF Len(results) >= PageSize
                   THEN [kind |-> "after", updatedSince |-> Last(results).updatedAt,
                         tie |-> TieOf(stream, Last(results))]
                   ELSE NoQuery ]

----------------------------------------------------------------------------
(* IndexedDB *)

\* IDBObjectStore.put on a store with a keyPath: the record replaces the one of its key
PutOrder(store, order) == {r \in store : r.id # order.id} \cup {order}
PutTicket(store, ticket) == {r \in store : r.secret # ticket.secret} \cup {ticket}
PutPatch(store, patch) == {r \in store : r.secret # patch.secret} \cup {patch}

\* storeOrders: every order of the page is put
RECURSIVE StoreOrdersResult(_, _)
StoreOrdersResult(store, items) ==
    IF items = << >> THEN store
    ELSE StoreOrdersResult(PutOrder(store, Head(items)), Tail(items))

\* storeTickets: every ticket is put ...
RECURSIVE StoreTicketsResult(_, _)
StoreTicketsResult(store, items) ==
    IF items = << >> THEN store
    ELSE StoreTicketsResult(PutTicket(store, Head(items)), Tail(items))

\* a storeTickets that clears the whole outbox
StoreTicketsPatchesResult_ClearAll(store, items, clearPatches) == {}
\* a storeTickets that deletes no patch
StoreTicketsPatchesResult_KeepAll(store, items, clearPatches) == store

\* ... and, with clearPatches, the patch of its secret is deleted
StoreTicketsPatchesResult(store, items, clearPatches) ==
    IF clearPatches
    THEN {r \in store : \A i \in DOMAIN items : items[i].secret # r.secret}
    ELSE store

\* storeTicketPatches: every patch is put
RECURSIVE StoreTicketPatchesResult(_, _)
StoreTicketPatchesResult(store, items) ==
    IF items = << >> THEN store
    ELSE StoreTicketPatchesResult(PutPatch(store, Head(items)), Tail(items))

\* the object stores of a transaction, and whether it writes
Scope(op) ==
    CASE op \in {"storeOrders", "getOrders", "getOrder"} -> {"orders"}
      [] op \in {"readSetting", "storeSetting"} -> {"settings"}
      [] op \in {"storeTickets", "getTicket"} -> {"tickets", "ticketPatches"}
      [] op \in {"storeTicketPatches", "getTicketPatches"} -> {"ticketPatches"}
ReadOnly(op) ==
    op \in {"readSetting", "getTicketPatches", "getTicket", "getOrders", "getOrder"}

\* a store method and the caller that awaits it; doomed when getDatabase
\* rejected and no transaction was created
Tx(op, stream, items, val, cont, reset) ==
    [op |-> op, stream |-> stream, items |-> items, val |-> val, cont |-> cont,
     reset |-> reset, doomed |-> FALSE]

\* a getDatabase that rejects and whose callers go on as if it had resolved
Doom_Ignored(txs) == txs
Doom(txs) == [i \in DOMAIN txs |-> [txs[i] EXCEPT !.doomed = TRUE]]

\* no caller stands on a rejected getDatabase: such callers resume in the task
\* that rejected them, before any other handler runs
Idle == \A i \in DOMAIN txq : ~txq[i].doomed

\* IndexedDB runs transactions with overlapping scopes in the order of their
\* creation, unless both only read
CanRun(i) ==
    /\ Idle
    /\ \A j \in 1..(i - 1) :
          \/ Scope(txq[j].op) \cap Scope(txq[i].op) = {}
          \/ ReadOnly(txq[j].op) /\ ReadOnly(txq[i].op)

\* a request of a transaction may fail at any time, and transaction.onerror
\* rejects the promise of the store method; the callers of a rejected
\* getDatabase fail first, in their order
MayFail(i) ==
    \/ Idle
    \/ txq[i].doomed /\ \A j \in 1..(i - 1) : ~txq[j].doomed

\* the order in which the callers that wait for the open resume: the first
\* caller was handed databasePromise.then(...), the later ones databasePromise
\* itself, so the first caller resumes after them
WakeOrder(w) == IF w = << >> THEN w ELSE Tail(w) \o << Head(w) >>

\* a getDatabase that opens the database whenever the connection is not there
HasPromise_Never(promise) == FALSE

\* if (this.databasePromise): an open is under way, or has been rejected
HasPromise(promise) == promise # "null"

\* the opens that the getDatabase calls of txs start, one call after the
\* other: a call that finds no promise opens the database and sets the promise
RECURSIVE NewOpens(_, _)
NewOpens(txs, promise) ==
    IF txs = << >> THEN 0
    ELSE IF HasPromise(promise) THEN NewOpens(Tail(txs), promise)
    ELSE 1 + NewOpens(Tail(txs), "pending")

\* getDatabase for the store methods a handler calls (q is txq without the
\* transaction that just ended): with the connection open their transactions
\* are created in call order; with the open rejected they reject; otherwise
\* they wait for the open, which the first of them starts
Begin(q, txs) ==
    IF txs = << >> \/ database
    THEN txq' = q \o txs /\ UNCHANGED << databasePromise, waiting, opens >>
    ELSE IF databasePromise = "rejected"
    THEN txq' = q \o Doom(txs) /\ UNCHANGED << databasePromise, waiting, opens >>
    ELSE /\ databasePromise' = "pending"
         /\ opens' = opens + NewOpens(txs, databasePromise)
         /\ waiting' = waiting \o txs
         /\ txq' = q

Get(stream, query) == [method |-> "GET", stream |-> stream, query |-> query, body |-> NoBody]

\* what a handler did: its step, the error it met, what became of the promise
\* of its method, the items it handled, the pages it sent to the listeners of
\* ordersEventBus, and the stream and the reset argument of its refresh
Ev(ev, err, outcome, items) ==
    [ev |-> ev, err |-> err, outcome |-> outcome, items |-> items, sent |-> << >>,
     stream |-> "none", reset |-> FALSE]
RefreshEv(ev, err, outcome, stream, reset) ==
    [Ev(ev, err, outcome, NoItems) EXCEPT !.stream = stream, !.reset = reset]

\* a page that is sent to nobody
SendEvent_None(results) == << >>

\* this.ordersEventBus.sendEvent("fetched", response.results)
SendEvent(results) == << results >>

\* the version the build asks of indexedDB.open
Version == 125

\* the object stores of version 1
AllStores == {"orders", "tickets", "ticketPatches", "settings"}

\* DBOpenRequest.onupgradeneeded runs when the version on disk is older
UpgradeNeeded(oldVersion) == oldVersion < Version

\* an upgrade that keeps what the stores hold
Upgraded_Kept(oldVersion, store, cleared) == store

\* onupgradeneeded: below version 1 the stores are created, from any other
\* version every store is cleared
Upgraded(oldVersion, store, cleared) ==
    IF UpgradeNeeded(oldVersion) /\ ~(oldVersion < 1) THEN cleared ELSE store

UpgradedNames(oldVersion, names) ==
    IF UpgradeNeeded(oldVersion) /\ oldVersion < 1 THEN names \cup AllStores ELSE names

\* DBOpenRequest.onsuccess, after the upgrade if one was needed: the connection
\* is kept and the waiting callers create their transactions.  The open fails
\* when the database on disk is newer than Version, or when the upgrade looks
\* for a store that is not there
OpenDone ==
    /\ databasePromise = "pending"
    /\ diskVersion <= Version
    /\ (UpgradeNeeded(diskVersion) /\ ~(diskVersion < 1)) => AllStores \subseteq objectStores
    /\ database' = TRUE
    /\ databasePromise' = "null"
    /\ txq' = txq \o WakeOrder(waiting)
    /\ waiting' = << >>
    /\ UNCHANGED opens
    /\ diskVersion' = Version
    /\ objectStores' = UpgradedNames(diskVersion, objectStores)
    /\ orders' = Upgraded(diskVersion, orders, {})
    /\ tickets' = Upgraded(diskVersion, tickets, {})
    /\ ticketPatches' = Upgraded(diskVersion, ticketPatches, {})
    /\ settings' = Upgraded(diskVersion, settings, [k \in SettingKeys |-> Absent])
    /\ last' = Ev(IF ~UpgradeNeeded(diskVersion) THEN "opened"
                  ELSE IF diskVersion < 1 THEN "created" ELSE "cleared",
                  "none", "none", NoItems)
    /\ UNCHANGED << mgrVars, net, srvVal, srvOrders, calls, histVars, callVars >>

\* process.env.NODE_ENV of the build that runs
NodeEnvs == {"production", "development"}

\* window.indexedDB.deleteDatabase: nothing is left of the database on disk
DeleteDatabase ==
    /\ diskVersion' = 0
    /\ objectStores' = {}
    /\ orders' = {}
    /\ tickets' = {}
    /\ ticketPatches' = {}
    /\ settings' = [k \in SettingKeys |-> Absent]

\* DBOpenRequest.onerror: a development build deletes the database;
\* databasePromise stays, rejected, and the waiting callers reject
OpenFailed(nodeEnv) ==
    /\ databasePromise = "pending"
    /\ IF nodeEnv = "development"
       THEN DeleteDatabase
       ELSE UNCHANGED << diskVersion, objectStores, orders, tickets, ticketPatches,
                         settings >>
    /\ databasePromise' = "rejected"
    /\ txq' = txq \o Doom(WakeOrder(waiting))
    /\ waiting' = << >>
    /\ UNCHANGED opens
    /\ last' = Ev("openFailed", "storage", "none", NoItems)
    /\ UNCHANGED << mgrVars, database, net, srvVal, calls, histVars, callVars,
                    srvOrders >>

----------------------------------------------------------------------------
(* The refresh of a stream: fetchNewOrders, fetchNewTickets *)

\* setlastFetchedOrder, setLastFetchedTicket: the cursor of an item
CursorOf(stream, item) ==
    [kind |-> "set", updatedAt |-> item.updatedAt,
     tie |-> IF stream = "orders" THEN item.number ELSE item.id]

\* a first query that forgets the cursor
FirstQuery_NoFilter(reset, cursor) == EmptyQuery

\* a first query that filters by the cursor also under reset
FirstQuery_NoReset(reset, cursor) ==
    IF cursor.kind # "set" THEN EmptyQuery
    ELSE [kind |-> "after", updatedSince |-> cursor.updatedAt, tie |-> cursor.tie]

\* the query of the first page
FirstQuery(reset, cursor) ==
    IF reset \/ cursor.kind # "set" THEN EmptyQuery
    ELSE [kind |-> "after", updatedSince |-> cursor.updatedAt, tie |-> cursor.tie]

\* readSettingKey(...) ?? null
ReadCursor(stream) ==
    LET result == settings[SettingKey(stream)]
    IN  IF result = Absent THEN Null ELSE result

\* the flag the guard of a stream reads
IsLoading(stream) == IF stream = "orders" THEN isLoadingOrders ELSE isLoadingTickets

\* the finally block of fetchNewOrders and the one of fetchNewTickets: both
\* assign isLoadingOrders
Finally(stream) ==
    /\ isLoadingOrders' = FALSE
    /\ UNCHANGED isLoadingTickets

CanCall == calls < MaxCalls /\ Idle

FetchNewOrders(reset) ==
    /\ CanCall
    /\ calls' = calls + 1
    /\ IF IsLoading("orders")
       THEN /\ last' = RefreshEv("refreshJoined", "none", "resolved", "orders", reset)
            /\ UNCHANGED << mgrVars, idbVars, net >>
       ELSE /\ isLoadingOrders' = TRUE
            /\ last' = RefreshEv("refreshStarted", "none", "pending", "orders", reset)
            /\ IF ~reset /\ lastFetchedOrder = Undefined
               THEN /\ Begin(txq, << Tx("readSetting", "orders", NoItems, Null, "refresh", reset) >>)
                    /\ UNCHANGED net
               ELSE /\ net' = Append(net, Get("orders", FirstQuery(reset, lastFetchedOrder)))
                    /\ UNCHANGED idbVars
            /\ UNCHANGED << lastFetchedOrder, lastFetchedTicket, isLoadingTickets,
                            savingTicketPatches >>
    /\ UNCHANGED << dbVars, srvVal, histVars,
                    auxVars >>

FetchNewTickets(reset) ==
    /\ CanCall
    /\ calls' = calls + 1
    /\ IF IsLoading("tickets")
       THEN /\ last' = RefreshEv("refreshJoined", "none", "resolved", "tickets", reset)
            /\ UNCHANGED << mgrVars, idbVars, net >>
       ELSE /\ isLoadingTickets' = TRUE
            /\ last' = RefreshEv("refreshStarted", "none", "pending", "tickets", reset)
            /\ IF lastFetchedTicket = Undefined
               THEN /\ Begin(txq, << Tx("readSetting", "tickets", NoItems, Null, "refresh", reset) >>)
                    /\ UNCHANGED net
               ELSE /\ net' = Append(net, Get("tickets", FirstQuery(reset, lastFetchedTicket)))
                    /\ UNCHANGED idbVars
            /\ UNCHANGED << lastFetchedOrder, lastFetchedTicket, isLoadingOrders,
                            savingTicketPatches >>
    /\ UNCHANGED << dbVars, srvVal, histVars,
                    auxVars >>

\* the cursor read of the first refresh ends: the loop sends its first request
SetCursor(stream, cursor) ==
    IF stream = "orders"
    THEN lastFetchedOrder' = cursor /\ UNCHANGED lastFetchedTicket
    ELSE lastFetchedTicket' = cursor /\ UNCHANGED lastFetchedOrder

ReadSettingEnds(i, cursor) ==
    LET tx == txq[i] IN
    /\ SetCursor(tx.stream, cursor)
    /\ Begin(Remove(txq, i), << >>)
    /\ net' = Append(net, Get(tx.stream, FirstQuery(tx.reset, cursor)))
    /\ UNCHANGED << isLoadingOrders, isLoadingTickets, savingTicketPatches, dbVars,
                    srvVal, calls, histVars,
                    auxVars >>

ReadSettingDone(i) ==
    /\ txq[i].op = "readSetting"
    /\ CanRun(i)
    /\ last' = RefreshEv("cursorRead", "none", "pending", txq[i].stream, txq[i].reset)
    /\ ReadSettingEnds(i, ReadCursor(txq[i].stream))

ReadSettingFailed(i) ==
    /\ txq[i].op = "readSetting"
    /\ MayFail(i)
    /\ last' = RefreshEv("cursorRead", "storage", "pending", txq[i].stream, txq[i].reset)
    /\ ReadSettingEnds(i, Null)

\* if (!query) break: after the last page the loop ends and the promise of the
\* refresh resolves; after any other page the loop awaits the next request
PageOutcome(response) == IF response.next = NoQuery THEN "resolved" ELSE "pending"

\* a page of orders arrives
OrdersPage(i) ==
    LET response == IF net[i].body = NoBody
                    THEN ServerPage("orders", ServerOrdersAt(srvOrders), net[i].query)
                    ELSE CHOOSE answer \in net[i].body : TRUE
        results == response.results
    IN  /\ net[i].method = "GET" /\ net[i].stream = "orders"
        /\ Idle
        /\ IF Len(results) > 0
           THEN /\ Begin(txq,
                      << Tx("storeOrders", "orders", results, Null, "none", FALSE),
                         Tx("storeSetting", "orders", NoItems,
                            CursorOf("orders", Last(results)), "none", FALSE) >>)
                /\ lastFetchedOrder' = CursorOf("orders", Last(results))
                /\ fetched' = fetched \cup {[stream |-> "orders", items |-> results]}
                /\ last' = [Ev("page", "none", PageOutcome(response), results)
                               EXCEPT !.sent = SendEvent(results)]
           ELSE /\ last' = Ev("emptyPage", "none", PageOutcome(response), NoItems)
                /\ UNCHANGED << idbVars, lastFetchedOrder, fetched >>
        /\ IF response.next = NoQuery
           THEN net' = Remove(net, i) /\ Finally("orders")
           ELSE /\ net' = Replace(net, i, Get("orders", response.next))
                /\ UNCHANGED << isLoadingOrders, isLoadingTickets >>
        /\ UNCHANGED << lastFetchedTicket, savingTicketPatches, dbVars, srvVal, calls,
                        delivered, lastEnq, answered, acked,
                        auxVars >>

\* a page of tickets arrives
TicketsPage(i) ==
    LET response == ServerPage("tickets", ServerTickets(srvVal), net[i].query)
        results == response.results
    IN  /\ net[i].method = "GET" /\ net[i].stream = "tickets"
        /\ Idle
        /\ IF Len(results) > 0
           THEN /\ Begin(txq,
                      << Tx("storeTickets", "tickets", results, Null, "refresh", FALSE),
                         Tx("storeSetting", "tickets", NoItems,
                            CursorOf("tickets", Last(results)), "none", FALSE) >>)
                /\ lastFetchedTicket' = CursorOf("tickets", Last(results))
                /\ fetched' = fetched \cup {[stream |-> "tickets", items |-> results]}
                /\ last' = Ev("page", "none", PageOutcome(response), results)
           ELSE /\ last' = Ev("emptyPage", "none", PageOutcome(response), NoItems)
                /\ UNCHANGED << idbVars, lastFetchedTicket, fetched >>
        /\ IF response.next = NoQuery
           THEN net' = Remove(net, i) /\ Finally("tickets")
           ELSE /\ net' = Replace(net, i, Get("tickets", response.next))
                /\ UNCHANGED << isLoadingOrders, isLoadingTickets >>
        /\ UNCHANGED << lastFetchedOrder, savingTicketPatches, dbVars, srvVal, calls,
                        delivered, lastEnq, answered, acked,
                        auxVars >>

\* a page request fails: the error leaves the loop through the finally block
FetchFailed(i) ==
    /\ net[i].method = "GET"
    /\ Idle
    /\ net' = Remove(net, i)
    /\ Finally(net[i].stream)
    /\ last' = RefreshEv("refreshFailed", "request", "rejected", net[i].stream, FALSE)
    /\ UNCHANGED << lastFetchedOrder, lastFetchedTicket, savingTicketPatches, dbVars,
                    idbVars, srvVal, calls, histVars,
                    auxVars >>

----------------------------------------------------------------------------
(* The store writes that nobody awaits *)

StoreOrdersDone(i) ==
    /\ txq[i].op = "storeOrders" /\ txq[i].cont = "none"
    /\ CanRun(i)
    /\ orders' = StoreOrdersResult(orders, txq[i].items)
    /\ Begin(Remove(txq, i), << >>)
    /\ last' = Ev("ordersStored", "none", "none", txq[i].items)
    /\ UNCHANGED << mgrVars, database, tickets, ticketPatches, settings, net, srvVal, calls,
                    histVars,
                    auxVars >>

\* storeSettingKey
StoreSettingDone(i) ==
    /\ txq[i].op = "storeSetting"
    /\ CanRun(i)
    /\ settings' = [settings EXCEPT ![SettingKey(txq[i].stream)] = txq[i].val]
    /\ Begin(Remove(txq, i), << >>)
    /\ last' = Ev("cursorStored", "none", "none", NoItems)
    /\ UNCHANGED << mgrVars, database, orders, tickets, ticketPatches, net, srvVal, calls,
                    histVars,
                    auxVars >>

\* storeTickets of a page of the refresh
PageTicketsDone(i) ==
    /\ txq[i].op = "storeTickets" /\ txq[i].cont = "refresh"
    /\ CanRun(i)
    /\ tickets' = StoreTicketsResult(tickets, txq[i].items)
    /\ ticketPatches' = StoreTicketsPatchesResult(ticketPatches, txq[i].items, TRUE)
    /\ Begin(Remove(txq, i), << >>)
    /\ last' = Ev("pageStored", "none", "none", txq[i].items)
    /\ UNCHANGED << mgrVars, database, orders, settings, net, srvVal, calls, histVars,
                    auxVars >>

\* a write of the refresh fails: the error is logged
PageWriteFailed(i) ==
    /\ \/ txq[i].op \in {"storeOrders", "storeSetting"} /\ txq[i].cont = "none"
       \/ txq[i].op = "storeTickets" /\ txq[i].cont = "refresh"
    /\ MayFail(i)
    /\ Begin(Remove(txq, i), << >>)
    /\ last' = Ev("writeFailed", "storage", "none", txq[i].items)
    /\ UNCHANGED << mgrVars, dbVars, net, srvVal, calls, histVars,
                    auxVars >>

\* history: the write of a patch that is lost (its transaction fails or aborts)
\* ends the record of the patch enqueued last for its secret
Lost(enq, tx) ==
    [s \in DOMAIN enq |->
        IF tx.op = "storeTicketPatches" /\ \E i \in DOMAIN tx.items : tx.items[i].secret = s
        THEN 0 ELSE enq[s]]

\* the store methods that resolve in transaction.oncomplete: the writes
HasOnComplete(op) == ~ReadOnly(op)

\* the callers that await the promise of their store method
Awaited(cont) == cont \in {"add", "flush", "patch"}

\* a transaction aborts when it commits, after its requests succeeded (the
\* disk is full, the write fails): no request fires an error event, so neither
\* oncomplete nor onerror runs; nothing is written and the promise of the store
\* method never settles
TransactionAborted(i) ==
    /\ HasOnComplete(txq[i].op)
    /\ CanRun(i)
    /\ Begin(Remove(txq, i), << >>)
    /\ last' = Ev("transactionAborted", "none",
                  IF Awaited(txq[i].cont) THEN "pending" ELSE "none", txq[i].items)
    /\ lastEnq' = Lost(lastEnq, txq[i])
    /\ UNCHANGED << mgrVars, dbVars, net, srvVal, calls, fetched, delivered, answered,
                    acked, auxVars >>

----------------------------------------------------------------------------
(* The outbox of ticket patches: addTicketPatch, trySavePatches, patchTickets *)

\* a request without the patches
Patch_NoBody(method, body) ==
    [method |-> method, stream |-> "tickets", query |-> NoQuery, body |-> NoBody]

\* the PATCH request of patchTickets
Patch(method, body) == [method |-> method, stream |-> "tickets", query |-> NoQuery, body |-> body]

SecretsOf(items) == {items[i].secret : i \in DOMAIN items}

\* a guard that never holds
AlreadySaving_Never == FALSE

\* the guard of trySavePatches
AlreadySaving == savingTicketPatches

\* a classification that takes no error, or every error, for a network error
IsNetworkError_Never(e) == FALSE
IsNetworkError_Always(e) == TRUE

\* Request.isNetworkError
IsNetworkError(e) == e = "network"

\* trySavePatches up to its first await: the guard, then the read of the outbox
\* (q is txq without the transaction that just ended)
EnterTrySavePatches(q) ==
    IF AlreadySaving
    THEN Begin(q, << >>) /\ UNCHANGED savingTicketPatches
    ELSE /\ savingTicketPatches' = TRUE
         /\ Begin(q, << Tx("getTicketPatches", "tickets", NoItems, Null, "flush", FALSE) >>)

\* an addTicketPatch that resolves whatever became of storeTicketPatches
AddOutcome_Swallowed(stored) == "resolved"

\* await this.storeTicketPatches([patch]): addTicketPatch goes on when the
\* patch is stored and rejects when it is not
AddOutcome(stored) == IF stored THEN "resolved" ELSE "rejected"

AddTicketPatch(patch) ==
    /\ CanCall
    /\ calls' = calls + 1
    /\ Begin(txq, << Tx("storeTicketPatches", "tickets", << patch >>, Null, "add", FALSE) >>)
    /\ last' = Ev("addCalled", "none", "pending", << patch >>)
    /\ lastEnq' = [lastEnq EXCEPT ![patch.secret] = patch.val]
    /\ UNCHANGED << mgrVars, dbVars, net, srvVal, fetched, delivered, answered, acked,
                    auxVars >>

\* storeTicketPatches commits: addTicketPatch starts a flush and resolves
PatchStored(i) ==
    LET items == txq[i].items IN
    /\ txq[i].op = "storeTicketPatches"
    /\ CanRun(i)
    /\ ticketPatches' = StoreTicketPatchesResult(ticketPatches, items)
    /\ EnterTrySavePatches(Remove(txq, i))
    /\ answered' = answered \ SecretsOf(items)
    /\ acked' = acked \ SecretsOf(items)
    /\ last' = Ev("patchStored", "none", AddOutcome(TRUE), items)
    /\ UNCHANGED << lastFetchedOrder, lastFetchedTicket, isLoadingOrders, isLoadingTickets,
                    database, orders, tickets, settings, net, srvVal, calls, fetched,
                    delivered, lastEnq,
                    auxVars >>

\* storeTicketPatches fails: addTicketPatch rejects before it starts a flush
PatchStoreFailed(i) ==
    /\ txq[i].op = "storeTicketPatches"
    /\ MayFail(i)
    /\ Begin(Remove(txq, i), << >>)
    /\ last' = Ev("patchStoreFailed", "storage", AddOutcome(FALSE), txq[i].items)
    /\ lastEnq' = Lost(lastEnq, txq[i])
    /\ UNCHANGED << mgrVars, dbVars, net, srvVal, calls, fetched, delivered, answered,
                    acked, auxVars >>

\* a call of trySavePatches by the application
TrySavePatches ==
    /\ CanCall
    /\ calls' = calls + 1
    /\ last' = IF AlreadySaving
               THEN Ev("flushSkipped", "none", "resolved", NoItems)
               ELSE Ev("flushStarted", "none", "pending", NoItems)
    /\ EnterTrySavePatches(txq)
    /\ UNCHANGED << lastFetchedOrder, lastFetchedTicket, isLoadingOrders, isLoadingTickets,
                    dbVars, net, srvVal, histVars,
                    auxVars >>

\* getTicketPatchesFromDatabase resolves: the outbox is sent, or the flush ends
QueueRead(i) ==
    /\ txq[i].op = "getTicketPatches"
    /\ CanRun(i)
    /\ Begin(Remove(txq, i), << >>)
    /\ IF Cardinality(ticketPatches) > 0
       THEN /\ net' = Append(net, Patch("PATCH", ticketPatches))
            /\ last' = Ev("flushSent", "none", "pending", NoItems)
            /\ UNCHANGED savingTicketPatches
       ELSE /\ savingTicketPatches' = FALSE
            /\ last' = Ev("flushEmpty", "none", "resolved", NoItems)
            /\ UNCHANGED net
    /\ UNCHANGED << lastFetchedOrder, lastFetchedTicket, isLoadingOrders, isLoadingTickets,
                    dbVars, srvVal, calls, histVars,
                    auxVars >>

\* getTicketPatchesFromDatabase rejects: trySavePatches rejects where it stands
QueueReadFailed(i) ==
    /\ txq[i].op = "getTicketPatches"
    /\ MayFail(i)
    /\ Begin(Remove(txq, i), << >>)
    /\ last' = Ev("flushReadFailed", "storage", "rejected", NoItems)
    /\ UNCHANGED << mgrVars, dbVars, net, srvVal, calls, histVars,
                    auxVars >>

\* the server applies the patches of the secrets in applied and returns their tickets
PatchedVals(body, applied) ==
    [s \in Secrets |->
        IF s \in applied THEN (CHOOSE p \in body : p.secret = s).val ELSE srvVal[s]]

PatchResponse(body, applied) ==
    SelectSeq(ServerTickets(PatchedVals(body, applied)), LAMBDA t : t.secret \in applied)

\* the PATCH request succeeds: patchTickets stores the response
PatchOk(i, applied) ==
    LET body == net[i].body
        response == PatchResponse(body, applied)
    IN  /\ net[i].method = "PATCH"
        /\ Idle
        /\ applied \subseteq {p.secret : p \in body}
        /\ srvVal' = PatchedVals(body, applied)
        /\ net' = Remove(net, i)
        /\ Begin(txq, << Tx("storeTickets", "tickets", response, Null, "flush", FALSE) >>)
        /\ delivered' = delivered \cup {p \in body : p.secret \in applied}
        /\ last' = Ev("patchAnswered", "none", "pending", response)
        /\ UNCHANGED << mgrVars, dbVars, calls, fetched, lastEnq, answered, acked,
                        auxVars >>

\* the PATCH request fails
PatchFailed(i, e) ==
    /\ net[i].method = "PATCH"
    /\ Idle
    /\ net' = Remove(net, i)
    /\ savingTicketPatches' = FALSE
    /\ last' = Ev("patchFailed", e, IF IsNetworkError(e) THEN "resolved" ELSE "rejected",
                  NoItems)
    /\ UNCHANGED << lastFetchedOrder, lastFetchedTicket, isLoadingOrders, isLoadingTickets,
                    dbVars, idbVars, srvVal, calls, histVars,
                    auxVars >>

\* storeTickets of the response commits: trySavePatches resolves
FlushStored(i) ==
    LET items == txq[i].items IN
    /\ txq[i].op = "storeTickets" /\ txq[i].cont = "flush"
    /\ CanRun(i)
    /\ tickets' = StoreTicketsResult(tickets, items)
    /\ ticketPatches' = StoreTicketsPatchesResult(ticketPatches, items, TRUE)
    /\ Begin(Remove(txq, i), << >>)
    /\ savingTicketPatches' = FALSE
    /\ lastEnq' = [s \in Secrets |-> IF s \in SecretsOf(items) THEN 0 ELSE lastEnq[s]]
    /\ answered' = answered \cup SecretsOf(items)
    /\ acked' = acked \cup SecretsOf(items)
    /\ last' = Ev("flushStored", "none", "resolved", items)
    /\ UNCHANGED << lastFetchedOrder, lastFetchedTicket, isLoadingOrders, isLoadingTickets,
                    database, orders, settings, net, srvVal, calls, fetched, delivered,
                    auxVars >>

\* storeTickets of the response fails: patchTickets logs it, trySavePatches resolves
FlushStoreFailed(i) ==
    /\ txq[i].op = "storeTickets" /\ txq[i].cont = "flush"
    /\ MayFail(i)
    /\ Begin(Remove(txq, i), << >>)
    /\ savingTicketPatches' = FALSE
    /\ answered' = answered \cup SecretsOf(txq[i].items)
    /\ last' = Ev("flushStoreFailed", "storage", "resolved", txq[i].items)
    /\ UNCHANGED << lastFetchedOrder, lastFetchedTicket, isLoadingOrders, isLoadingTickets,
                    dbVars, net, srvVal, calls, fetched, delivered, lastEnq, acked,
                    auxVars >>

----------------------------------------------------------------------------
(* Changing orders: patchOrders, and the server between a request and its answer *)

\* the server answers a page request of the orders; the answer is on its way
OrdersAnswered(i) ==
    /\ net[i].method = "GET" /\ net[i].stream = "orders"
    /\ net[i].body = NoBody
    /\ Idle
    /\ net' = Replace(net, i,
                 [net[i] EXCEPT !.body =
                     {ServerPage("orders", ServerOrdersAt(srvOrders), net[i].query)}])
    /\ last' = Ev("ordersAnswered", "none", "none", NoItems)
    /\ UNCHANGED << mgrVars, dbVars, idbVars, srvVal, calls, histVars,
                    auxVars >>

\* the PATCH request of patchOrders, for the order of an id
PatchOrdersRequest(id) ==
    [method |-> "PATCH", stream |-> "orders", query |-> NoQuery, body |-> {[id |-> id]}]

\* the server applies the patches: the order is updated at a later time
PatchedOrders(body, updatedAt) ==
    [i \in 1..NumOrders |->
        IF \E patch \in body : patch.id = i THEN ServerClock(updatedAt) + 1 ELSE updatedAt[i]]

\* the response of the PATCH: the patched orders
PatchOrdersResponse(body, updatedAt) ==
    SelectSeq(ServerOrdersAt(updatedAt), LAMBDA order : \E patch \in body : patch.id = order.id)

PatchOrders(id) ==
    /\ CanCall
    /\ calls' = calls + 1
    /\ net' = Append(net, PatchOrdersRequest(id))
    /\ last' = Ev("patchOrdersCalled", "none", "pending", NoItems)
    /\ UNCHANGED << mgrVars, dbVars, idbVars, srvVal, histVars,
                    auxVars >>

\* the PATCH request succeeds: patchOrders stores the response
PatchOrdersOk(i) ==
    LET updatedAt == PatchedOrders(net[i].body, srvOrders)
        response == PatchOrdersResponse(net[i].body, updatedAt)
    IN  /\ net[i].method = "PATCH" /\ net[i].stream = "orders"
        /\ Idle
        /\ srvOrders' = updatedAt
        /\ net' = Remove(net, i)
        /\ Begin(txq, << Tx("storeOrders", "orders", response, Null, "patch", FALSE) >>)
        /\ last' = Ev("ordersPatchAnswered", "none", "pending", response)
        /\ UNCHANGED << mgrVars, dbVars, srvVal, calls, histVars,
                        diskVersion, objectStores, callVars >>

\* the PATCH request fails: patchOrders rejects
PatchOrdersFailed(i) ==
    /\ net[i].method = "PATCH" /\ net[i].stream = "orders"
    /\ Idle
    /\ net' = Remove(net, i)
    /\ last' = Ev("ordersPatchFailed", "request", "rejected", NoItems)
    /\ UNCHANGED << mgrVars, dbVars, idbVars, srvVal, calls, histVars,
                    auxVars >>

\* what the listeners of ordersEventBus do with a page: all have returned,
\* one has not returned yet, one throws
ListenerOutcomes == {"returned", "pending", "rejected"}

\* await this.ordersEventBus.sendEvent("fetched", response.data): patchOrders
\* returns the orders when the listeners have returned, throws what a listener
\* threw, and awaits the listeners that have not returned; err is what
\* storeOrders threw and the catch logged
Sent(ev, err, listeners, items) ==
    [Ev(ev, IF listeners = "rejected" THEN "listener" ELSE err,
        IF listeners = "returned" THEN "resolved" ELSE listeners, items)
        EXCEPT !.sent = SendEvent(items)]

\* the pages that await their listeners, after a page was sent
Listening(listeners, items) ==
    IF listeners = "pending" THEN Append(listening, items) ELSE listening

\* storeOrders of the response commits: the orders are sent to the listeners
\* and patchOrders awaits them
PatchOrdersStored(i, listeners) ==
    /\ txq[i].op = "storeOrders" /\ txq[i].cont = "patch"
    /\ CanRun(i)
    /\ orders' = StoreOrdersResult(orders, txq[i].items)
    /\ Begin(Remove(txq, i), << >>)
    /\ listening' = Listening(listeners, txq[i].items)
    /\ last' = Sent("ordersPatchStored", "none", listeners, txq[i].items)
    /\ UNCHANGED << mgrVars, database, tickets, ticketPatches, settings, net, srvVal, calls,
                    histVars,
                    diskVars >>

\* storeOrders of the response fails: patchOrders logs it and goes on, the
\* orders are sent to the listeners and patchOrders awaits them
PatchOrdersStoreFailed(i, listeners) ==
    /\ txq[i].op = "storeOrders" /\ txq[i].cont = "patch"
    /\ MayFail(i)
    /\ Begin(Remove(txq, i), << >>)
    /\ listening' = Listening(listeners, txq[i].items)
    /\ last' = Sent("ordersPatchStoreFailed", "storage", listeners, txq[i].items)
    /\ UNCHANGED << mgrVars, dbVars, net, srvVal, calls, histVars,
                    diskVars >>

\* the listeners of a page that patchOrders sent have all returned, or one of
\* them throws: patchOrders returns the orders, or throws what it threw
ListenersDone(i, listeners) ==
    /\ i \in DOMAIN listening
    /\ listeners # "pending"
    /\ Idle
    /\ listening' = Remove(listening, i)
    /\ last' = Ev("ordersPatchSent", IF listeners = "rejected" THEN "listener" ELSE "none",
                  IF listeners = "returned" THEN "resolved" ELSE listeners, listening[i])
    /\ UNCHANGED << mgrVars, dbVars, idbVars, net, srvVal, calls, histVars,
                    diskVars >>

----------------------------------------------------------------------------
(* Reading the orders: getOrdersFromDatabase, getOrderFromDatabase *)

\* objectStore.getAll(): the records of the store by their key, the id
RECURSIVE GetAll(_)
GetAll(store) ==
    IF store = {} THEN << >>
    ELSE LET first == CHOOSE o \in store : \A p \in store : o.id <= p.id
         IN  << first >> \o GetAll(store \ {first})

\* resolve(undefined)
UndefinedOrder == [id |-> 0, number |-> 0, updatedAt |-> 0]

\* objectStore.get(id): the order of the id, undefined when there is none
GetOrderResult(store, id) ==
    IF \A o \in store : o.id # id THEN UndefinedOrder
    ELSE CHOOSE o \in store : o.id = id

GetOrdersFromDatabase ==
    /\ CanCall
    /\ calls' = calls + 1
    /\ Begin(txq, << Tx("getOrders", "orders", NoItems, Null, "read", FALSE) >>)
    /\ last' = Ev("ordersReadCalled", "none", "pending", NoItems)
    /\ UNCHANGED << mgrVars, dbVars, net, srvVal, histVars,
                    auxVars >>

\* the request of getOrdersFromDatabase succeeds: the promise resolves with
\* the orders of the store
OrdersRead(i) ==
    /\ txq[i].op = "getOrders"
    /\ CanRun(i)
    /\ Begin(Remove(txq, i), << >>)
    /\ last' = Ev("ordersRead", "none", "resolved", GetAll(orders))
    /\ UNCHANGED << mgrVars, dbVars, net, srvVal, calls, histVars,
                    auxVars >>

\* the transaction of getOrdersFromDatabase fails, or getDatabase rejected
OrdersReadFailed(i) ==
    /\ txq[i].op = "getOrders"
    /\ MayFail(i)
    /\ Begin(Remove(txq, i), << >>)
    /\ last' = Ev("ordersReadFailed", "storage", "rejected", NoItems)
    /\ UNCHANGED << mgrVars, dbVars, net, srvVal, calls, histVars,
                    auxVars >>

\* items holds the argument of the call
GetOrderFromDatabase(id) ==
    /\ CanCall
    /\ calls' = calls + 1
    /\ Begin(txq, << Tx("getOrder", "orders", << [id |-> id] >>, Null, "read", FALSE) >>)
    /\ last' = Ev("orderReadCalled", "none", "pending", NoItems)
    /\ UNCHANGED << mgrVars, dbVars, net, srvVal, histVars,
                    auxVars >>

\* the request of getOrderFromDatabase succeeds: the promise resolves with
\* the order, or with undefined
OrderRead(i) ==
    /\ txq[i].op = "getOrder"
    /\ CanRun(i)
    /\ Begin(Remove(txq, i), << >>)
    /\ last' = Ev("orderRead", "none", "resolved",
                  << GetOrderResult(orders, txq[i].items[1].id) >>)
    /\ UNCHANGED << mgrVars, dbVars, net, srvVal, calls, histVars,
                    auxVars >>

\* the transaction of getOrderFromDatabase fails, or getDatabase rejected
OrderReadFailed(i) ==
    /\ txq[i].op = "getOrder"
    /\ MayFail(i)
    /\ Begin(Remove(txq, i), << >>)
    /\ last' = Ev("orderReadFailed", "storage", "rejected", NoItems)
    /\ UNCHANGED << mgrVars, dbVars, net, srvVal, calls, histVars,
                    auxVars >>

----------------------------------------------------------------------------
(* Reading a ticket: getTicketFromDatabase *)

\* resolve(undefined)
UndefinedTicket == [id |-> 0, secret |-> "", updatedAt |-> 0, val |-> 0]

\* a patch that changes nothing
PatchTicket_Ignored(ticket, patch) == ticket

\* ticket.patch(patch): the field the patch carries replaces the ticket's
PatchTicket(ticket, patch) == [ticket EXCEPT !.val = patch.val]

\* what the requests of the read find: the record of the secret in tickets,
\* then, with withPatches, the record of the secret in ticketPatches
GetTicketResult(store, patches, secret, withPatches) ==
    IF \A t \in store : t.secret # secret THEN UndefinedTicket
    ELSE LET ticket == CHOOSE t \in store : t.secret = secret IN
         IF withPatches /\ \E p \in patches : p.secret = secret
         THEN PatchTicket(ticket, CHOOSE p \in patches : p.secret = secret)
         ELSE ticket

\* the transaction of a read; items holds the arguments of the call
GetTicketTx(secret, withPatches) ==
    Tx("getTicket", "tickets", << [secret |-> secret, withPatches |-> withPatches] >>,
       Null, "read", FALSE)

GetTicketFromDatabase(secret, withPatches) ==
    /\ CanCall
    /\ calls' = calls + 1
    /\ Begin(txq, << GetTicketTx(secret, withPatches) >>)
    /\ last' = Ev("readCalled", "none", "pending", NoItems)
    /\ UNCHANGED << mgrVars, dbVars, net, srvVal, histVars,
                    auxVars >>

\* the requests of the read succeed: the promise resolves with what they found
TicketRead(i) ==
    LET args == txq[i].items[1] IN
    /\ txq[i].op = "getTicket"
    /\ CanRun(i)
    /\ Begin(Remove(txq, i), << >>)
    /\ last' = Ev("ticketRead", "none", "resolved",
                  << GetTicketResult(tickets, ticketPatches, args.secret, args.withPatches) >>)
    /\ UNCHANGED << mgrVars, dbVars, net, srvVal, calls, histVars,
                    auxVars >>

\* the transaction of the read fails, or getDatabase rejected
TicketReadFailed(i) ==
    /\ txq[i].op = "getTicket"
    /\ MayFail(i)
    /\ Begin(Remove(txq, i), << >>)
    /\ last' = Ev("ticketReadFailed", "storage", "rejected", NoItems)
    /\ UNCHANGED << mgrVars, dbVars, net, srvVal, calls, histVars,
                    auxVars >>

----------------------------------------------------------------------------

Init ==
    /\ lastFetchedOrder = Undefined
    /\ lastFetchedTicket = Undefined
    /\ isLoadingOrders = FALSE
    /\ isLoadingTickets = FALSE
    /\ savingTicketPatches = FALSE
    /\ orders = {}
    /\ tickets = {}
    /\ ticketPatches = {}
    /\ settings = [k \in SettingKeys |-> Absent]
    /\ database = FALSE
    /\ databasePromise = "null"
    /\ waiting = << >>
    /\ opens = 0
    /\ txq = << >>
    /\ net = << >>
    /\ srvVal = [s \in Secrets |-> 0]
    /\ srvOrders = [i \in 1..NumOrders |-> ServerOrder(i).updatedAt]
    /\ calls = 0
    /\ fetched = {}
    /\ delivered = {}
    /\ lastEnq = [s \in Secrets |-> 0]
    /\ answered = {}
    /\ acked = {}
    /\ last = Ev("init", "none", "none", NoItems)
    /\ diskVersion = 0
    /\ objectStores = {}
    /\ loaded = FALSE
    /\ sodiumReady = FALSE
    /\ readyWait = << >>
    /\ jobs = << >>
    /\ sessionWait = << >>
    /\ listening = << >>
    /\ call = NoCall
    /\ ret = NoCall

\* the refresh of both streams
NextSync ==
    \/ \E reset \in BOOLEAN : FetchNewOrders(reset)
    \/ \E reset \in BOOLEAN : FetchNewTickets(reset)
    \/ \E i \in DOMAIN txq : ReadSettingDone(i)
    \/ \E i \in DOMAIN txq : ReadSettingFailed(i)
    \/ \E i \in DOMAIN net : OrdersPage(i)
    \/ \E i \in DOMAIN net : TicketsPage(i)
    \/ \E i \in DOMAIN net : FetchFailed(i)
    \/ \E i \in DOMAIN txq : StoreOrdersDone(i)
    \/ \E i \in DOMAIN txq : StoreSettingDone(i)
    \/ \E i \in DOMAIN txq : PageTicketsDone(i)
    \/ \E i \in DOMAIN txq : PageWriteFailed(i)
    \/ OpenDone
    \/ \E i \in DOMAIN txq : TransactionAborted(i)
    \/ \E nodeEnv \in NodeEnvs : OpenFailed(nodeEnv)

SpecSync == Init /\ [][NextSync]_vars

\* the refresh of both streams over a store that works: the database opens,
\* and no transaction fails
NextWorking ==
    \/ \E reset \in BOOLEAN : FetchNewOrders(reset)
    \/ \E reset \in BOOLEAN : FetchNewTickets(reset)
    \/ \E i \in DOMAIN txq : ReadSettingDone(i)
    \/ \E i \in DOMAIN net : OrdersPage(i)
    \/ \E i \in DOMAIN net : TicketsPage(i)
    \/ \E i \in DOMAIN net : FetchFailed(i)
    \/ \E i \in DOMAIN txq : StoreOrdersDone(i)
    \/ \E i \in DOMAIN txq : StoreSettingDone(i)
    \/ \E i \in DOMAIN txq : PageTicketsDone(i)
    \/ OpenDone

SpecWorking == Init /\ [][NextWorking]_vars

\* the refresh of both streams, never with reset
NextNoReset ==
    \/ FetchNewOrders(FALSE)
    \/ FetchNewTickets(FALSE)
    \/ \E i \in DOMAIN txq : ReadSettingDone(i)
    \/ \E i \in DOMAIN txq : ReadSettingFailed(i)
    \/ \E i \in DOMAIN net : OrdersPage(i)
    \/ \E i \in DOMAIN net : TicketsPage(i)
    \/ \E i \in DOMAIN net : FetchFailed(i)
    \/ \E i \in DOMAIN txq : StoreOrdersDone(i)
    \/ \E i \in DOMAIN txq : StoreSettingDone(i)
    \/ \E i \in DOMAIN txq : PageTicketsDone(i)
    \/ \E i \in DOMAIN txq : PageWriteFailed(i)
    \/ OpenDone
    \/ \E i \in DOMAIN txq : TransactionAborted(i)
    \/ \E nodeEnv \in NodeEnvs : OpenFailed(nodeEnv)

SpecNoReset == Init /\ [][NextNoReset]_vars

\* the outbox alone
NextQueue ==
    \/ \E patch \in Patches : AddTicketPatch(patch)
    \/ TrySavePatches
    \/ \E i \in DOMAIN txq : PatchStored(i)
    \/ \E i \in DOMAIN txq : PatchStoreFailed(i)
    \/ \E i \in DOMAIN txq : QueueRead(i)
    \/ \E i \in DOMAIN txq : QueueReadFailed(i)
    \/ \E i \in DOMAIN net : \E applied \in SUBSET Secrets : PatchOk(i, applied)
    \/ \E i \in DOMAIN net : \E e \in {"network", "other"} : PatchFailed(i, e)
    \/ \E i \in DOMAIN txq : FlushStored(i)
    \/ \E i \in DOMAIN txq : FlushStoreFailed(i)
    \/ OpenDone
    \/ \E i \in DOMAIN txq : TransactionAborted(i)
    \/ \E nodeEnv \in NodeEnvs : OpenFailed(nodeEnv)

SpecQueue == Init /\ [][NextQueue]_vars

\* the outbox and the reads of a ticket
NextRead ==
    \/ \E patch \in Patches : AddTicketPatch(patch)
    \/ TrySavePatches
    \/ \E i \in DOMAIN txq : PatchStored(i)
    \/ \E i \in DOMAIN txq : PatchStoreFailed(i)
    \/ \E i \in DOMAIN txq : QueueRead(i)
    \/ \E i \in DOMAIN txq : QueueReadFailed(i)
    \/ \E i \in DOMAIN net : \E applied \in SUBSET Secrets : PatchOk(i, applied)
    \/ \E i \in DOMAIN net : \E e \in {"network", "other"} : PatchFailed(i, e)
    \/ \E i \in DOMAIN txq : FlushStored(i)
    \/ \E i \in DOMAIN txq : FlushStoreFailed(i)
    \/ \E secret \in Secrets : \E withPatches \in BOOLEAN :
          GetTicketFromDatabase(secret, withPatches)
    \/ \E i \in DOMAIN txq : TicketRead(i)
    \/ \E i \in DOMAIN txq : TicketReadFailed(i)
    \/ OpenDone
    \/ \E i \in DOMAIN txq : TransactionAborted(i)
    \/ \E nodeEnv \in NodeEnvs : OpenFailed(nodeEnv)

SpecRead == Init /\ [][NextRead]_vars

\* the refresh of the orders and patchOrders, with a server that changes;
\* MaxRefreshes calls in all
NextOrders ==
    \/ \E reset \in BOOLEAN : calls < MaxRefreshes /\ FetchNewOrders(reset)
    \/ \E i \in DOMAIN txq : ReadSettingDone(i)
    \/ \E i \in DOMAIN txq : ReadSettingFailed(i)
    \/ \E i \in DOMAIN net : OrdersAnswered(i)
    \/ \E i \in DOMAIN net : OrdersPage(i)
    \/ \E i \in DOMAIN net : FetchFailed(i)
    \/ \E i \in DOMAIN txq : StoreOrdersDone(i)
    \/ \E i \in DOMAIN txq : StoreSettingDone(i)
    \/ \E i \in DOMAIN txq : PageWriteFailed(i)
    \/ \E id \in 1..NumOrders : calls < MaxRefreshes /\ PatchOrders(id)
    \/ \E i \in DOMAIN net : PatchOrdersOk(i)
    \/ \E i \in DOMAIN net : PatchOrdersFailed(i)
    \/ \E i \in DOMAIN txq : \E listeners \in ListenerOutcomes :
          PatchOrdersStored(i, listeners)
    \/ \E i \in DOMAIN txq : \E listeners \in ListenerOutcomes :
          PatchOrdersStoreFailed(i, listeners)
    \/ \E i \in DOMAIN listening : \E listeners \in ListenerOutcomes :
          ListenersDone(i, listeners)
    \/ calls < MaxRefreshes /\ GetOrdersFromDatabase
    \/ \E i \in DOMAIN txq : OrdersRead(i)
    \/ \E i \in DOMAIN txq : OrdersReadFailed(i)
    \/ \E id \in 1..NumOrders : calls < MaxRefreshes /\ GetOrderFromDatabase(id)
    \/ \E i \in DOMAIN txq : OrderRead(i)
    \/ \E i \in DOMAIN txq : OrderReadFailed(i)
    \/ OpenDone
    \/ \E i \in DOMAIN txq : TransactionAborted(i)
    \/ \E nodeEnv \in NodeEnvs : OpenFailed(nodeEnv)

SpecOrders == Init /\ [][NextOrders]_vars

\* the outbox and the refresh of the tickets
NextPatch ==
    \/ \E patch \in Patches : AddTicketPatch(patch)
    \/ TrySavePatches
    \/ \E i \in DOMAIN txq : PatchStored(i)
    \/ \E i \in DOMAIN txq : PatchStoreFailed(i)
    \/ \E i \in DOMAIN txq : QueueRead(i)
    \/ \E i \in DOMAIN txq : QueueReadFailed(i)
    \/ \E i \in DOMAIN net : \E applied \in SUBSET Secrets : PatchOk(i, applied)
    \/ \E i \in DOMAIN net : \E e \in {"network", "other"} : PatchFailed(i, e)
    \/ \E i \in DOMAIN txq : FlushStored(i)
    \/ \E i \in DOMAIN txq : FlushStoreFailed(i)
    \/ \E reset \in BOOLEAN : FetchNewTickets(reset)
    \/ \E i \in DOMAIN txq : ReadSettingDone(i)
    \/ \E i \in DOMAIN txq : ReadSettingFailed(i)
    \/ \E i \in DOMAIN net : TicketsPage(i)
    \/ \E i \in DOMAIN net : FetchFailed(i)
    \/ \E i \in DOMAIN txq : StoreSettingDone(i)
    \/ \E i \in DOMAIN txq : PageTicketsDone(i)
    \/ \E i \in DOMAIN txq : PageWriteFailed(i)
    \/ OpenDone
    \/ \E i \in DOMAIN txq : TransactionAborted(i)
    \/ \E nodeEnv \in NodeEnvs : OpenFailed(nodeEnv)

SpecPatch == Init /\ [][NextPatch]_vars

\* a fresh process: a new WebshopManager over the database the last one left;
\* what was pending is lost with the old process
Restart ==
    /\ Idle
    /\ UNCHANGED calls
    /\ lastFetchedOrder' = Undefined
    /\ lastFetchedTicket' = Undefined
    /\ isLoadingOrders' = FALSE
    /\ isLoadingTickets' = FALSE
    /\ savingTicketPatches' = FALSE
    /\ database' = FALSE
    /\ databasePromise' = "null"
    /\ waiting' = << >>
    /\ opens' = 0
    /\ txq' = << >>
    /\ net' = << >>
    /\ listening' = << >>
    /\ last' = Ev("restart", "none", "none", NoItems)
    /\ UNCHANGED << orders, tickets, ticketPatches, settings, srvVal, histVars,
                    diskVars >>

\* both refreshes, over restarts
NextResume ==
    \/ \E reset \in BOOLEAN : calls < MaxRefreshes /\ FetchNewOrders(reset)
    \/ \E reset \in BOOLEAN : calls < MaxRefreshes /\ FetchNewTickets(reset)
    \/ \E i \in DOMAIN txq : ReadSettingDone(i)
    \/ \E i \in DOMAIN txq : ReadSettingFailed(i)
    \/ \E i \in DOMAIN net : OrdersPage(i)
    \/ \E i \in DOMAIN net : TicketsPage(i)
    \/ \E i \in DOMAIN net : FetchFailed(i)
    \/ \E i \in DOMAIN txq : StoreOrdersDone(i)
    \/ \E i \in DOMAIN txq : StoreSettingDone(i)
    \/ \E i \in DOMAIN txq : PageTicketsDone(i)
    \/ \E i \in DOMAIN txq : PageWriteFailed(i)
    \/ OpenDone
    \/ \E i \in DOMAIN txq : TransactionAborted(i)
    \/ \E nodeEnv \in NodeEnvs : OpenFailed(nodeEnv)
    \/ Restart

SpecResume == Init /\ [][NextResume]_vars

\* what an earlier process, of this build or of an older one, can have left
\* on disk: no database, or the four stores, empty or with an order, a
\* ticket, a patch and a cursor
DiskVersions == {0, 1, Version - 1, Version, Version + 1}

InitUpgrade ==
    /\ lastFetchedOrder = Undefined
    /\ lastFetchedTicket = Undefined
    /\ isLoadingOrders = FALSE
    /\ isLoadingTickets = FALSE
    /\ savingTicketPatches = FALSE
    /\ diskVersion \in DiskVersions
    /\ objectStores = IF diskVersion < 1 THEN {} ELSE AllStores
    /\ \E left \in BOOLEAN :
          /\ left => diskVersion >= 1
          /\ orders = IF left THEN {ServerOrder(1)} ELSE {}
          /\ tickets = IF left THEN {ServerTicket("A", 0)} ELSE {}
          /\ ticketPatches = IF left THEN {[secret |-> "A", val |-> 1]} ELSE {}
          /\ settings = [k \in SettingKeys |->
                            IF left /\ k = SettingKey("orders")
                            THEN CursorOf("orders", ServerOrder(1)) ELSE Absent]
    /\ database = FALSE
    /\ databasePromise = "null"
    /\ waiting = << >>
    /\ opens = 0
    /\ txq = << >>
    /\ net = << >>
    /\ srvVal = [s \in Secrets |-> 0]
    /\ srvOrders = [i \in 1..NumOrders |-> ServerOrder(i).updatedAt]
    /\ calls = 0
    /\ fetched = {}
    /\ delivered = {}
    /\ lastEnq = [s \in Secrets |-> 0]
    /\ answered = {}
    /\ acked = {}
    /\ last = Ev("init", "none", "none", NoItems)
    /\ loaded = FALSE
    /\ sodiumReady = FALSE
    /\ readyWait = << >>
    /\ jobs = << >>
    /\ sessionWait = << >>
    /\ listening = << >>
    /\ call = NoCall
    /\ ret = NoCall

\* the refresh of the orders on the database an earlier process left
NextUpgrade ==
    \/ \E reset \in BOOLEAN : calls < MaxRefreshes /\ FetchNewOrders(reset)
    \/ \E i \in DOMAIN txq : ReadSettingDone(i)
    \/ \E i \in DOMAIN txq : ReadSettingFailed(i)
    \/ \E i \in DOMAIN net : OrdersPage(i)
    \/ \E i \in DOMAIN net : FetchFailed(i)
    \/ \E i \in DOMAIN txq : StoreOrdersDone(i)
    \/ \E i \in DOMAIN txq : StoreSettingDone(i)
    \/ \E i \in DOMAIN txq : PageWriteFailed(i)
    \/ OpenDone
    \/ \E i \in DOMAIN txq : TransactionAborted(i)
    \/ \E nodeEnv \in NodeEnvs : OpenFailed(nodeEnv)

SpecUpgrade == InitUpgrade /\ [][NextUpgrade]_vars

----------------------------------------------------------------------------
(* Sodium: sealMessage, unsealMessage *)

\* the code units of a string: "a", "e" with an acute accent, the high and the
\* low surrogate of U+1D11E
CodeUnits == {97, 233, 55348, 56606}
IsHighSurrogate(c) == c >= 55296 /\ c <= 56319
IsLowSurrogate(c) == c >= 56320 /\ c <= 57343

\* every surrogate of the string is half of a pair
WellFormed(u) ==
    \A i \in DOMAIN u :
       /\ IsHighSurrogate(u[i]) => (i < Len(u) /\ IsLowSurrogate(u[i + 1]))
       /\ IsLowSurrogate(u[i]) => (i > 1 /\ IsHighSurrogate(u[i - 1]))

\* the strings of at most n code units
Strings(n) == UNION {[1..k -> CodeUnits] : k \in 0..n}

\* an encoding that keeps the low seven bits of a code point
Utf8Bytes_Ascii(cp) == << cp % 128 >>

\* the UTF-8 bytes of a code point
Utf8Bytes(cp) ==
    IF cp < 128 THEN << cp >>
    ELSE IF cp < 2048 THEN << 192 + (cp \div 64), 128 + (cp % 64) >>
    ELSE IF cp < 65536
    THEN << 224 + (cp \div 4096), 128 + ((cp \div 64) % 64), 128 + (cp % 64) >>
    ELSE << 240 + (cp \div 262144), 128 + ((cp \div 4096) % 64),
            128 + ((cp \div 64) % 64), 128 + (cp % 64) >>

\* Buffer.from(message, "utf8"): a surrogate pair is one code point, a
\* surrogate that stands alone becomes U+FFFD
RECURSIVE Utf8Encode(_)
Utf8Encode(u) ==
    IF u = << >> THEN << >>
    ELSE IF IsHighSurrogate(u[1]) /\ Len(u) >= 2 /\ IsLowSurrogate(u[2])
    THEN Utf8Bytes(65536 + (u[1] - 55296) * 1024 + (u[2] - 56320))
         \o Utf8Encode(Tail(Tail(u)))
    ELSE IF IsHighSurrogate(u[1]) \/ IsLowSurrogate(u[1])
    THEN Utf8Bytes(65533) \o Utf8Encode(Tail(u))
    ELSE Utf8Bytes(u[1]) \o Utf8Encode(Tail(u))

\* the UTF-16 code units of a code point: one, or a surrogate pair
Utf16Units(cp) ==
    IF cp < 65536 THEN << cp >>
    ELSE << 55296 + ((cp - 65536) \div 1024), 56320 + ((cp - 65536) % 1024) >>

\* the decoder over the bytes that are left: cp is the code point read so far,
\* needed the number of bytes its sequence still lacks, lower..upper the range
\* of the next of them.  The range of the first continuation byte excludes the
\* overlong forms (after 0xE0 and 0xF0), the surrogates (after 0xED) and the
\* code points above U+10FFFF (after 0xF4); 0xC0, 0xC1 and 0xF5..0xFF start no
\* sequence.  A sequence that is cut, by a byte out of range or by the end,
\* becomes one U+FFFD, and the byte that cut it is read again
RECURSIVE Utf8DecodeFrom(_, _, _, _, _)
Utf8DecodeFrom(b, cp, needed, lower, upper) ==
    IF b = << >> THEN (IF needed > 0 THEN << 65533 >> ELSE << >>)
    ELSE IF needed = 0
    THEN IF b[1] < 128 THEN << b[1] >> \o Utf8DecodeFrom(Tail(b), 0, 0, 128, 191)
         ELSE IF b[1] >= 194 /\ b[1] <= 223
         THEN Utf8DecodeFrom(Tail(b), b[1] % 32, 1, 128, 191)
         ELSE IF b[1] >= 224 /\ b[1] <= 239
         THEN Utf8DecodeFrom(Tail(b), b[1] % 16, 2,
                             IF b[1] = 224 THEN 160 ELSE 128,
                             IF b[1] = 237 THEN 159 ELSE 191)
         ELSE IF b[1] >= 240 /\ b[1] <= 244
         THEN Utf8DecodeFrom(Tail(b), b[1] % 8, 3,
                             IF b[1] = 240 THEN 144 ELSE 128,
                             IF b[1] = 244 THEN 143 ELSE 191)
         ELSE << 65533 >> \o Utf8DecodeFrom(Tail(b), 0, 0, 128, 191)
    ELSE IF b[1] < lower \/ b[1] > upper
    THEN << 65533 >> \o Utf8DecodeFrom(b, 0, 0, 128, 191)
    ELSE IF needed = 1
    THEN Utf16Units(cp * 64 + (b[1] % 64)) \o Utf8DecodeFrom(Tail(b), 0, 0, 128, 191)
    ELSE Utf8DecodeFrom(Tail(b), cp * 64 + (b[1] % 64), needed - 1, 128, 191)

\* buffer.toString("utf8")
Utf8Decode(b) == Utf8DecodeFrom(b, 0, 0, 128, 191)

\* the key pairs: the public and the private key of pair k
KeyPairs == {1, 2}
\* the ephemeral key pairs crypto_box_seal draws from
Ephemerals == {1, 2}
\* the nonces randombytes_buf draws from
Nonces == {1, 2}

\* what a call returns, or the error it throws
Ok(val) == [ok |-> TRUE, val |-> val, err |-> "none"]
Err(e) == [ok |-> FALSE, val |-> << >>, err |-> e]

\* the sizes the library defines: crypto_box_PUBLICKEYBYTES,
\* crypto_box_SECRETKEYBYTES, crypto_box_NONCEBYTES, crypto_box_MACBYTES,
\* crypto_sign_BYTES, and crypto_box_SEALBYTES (the ephemeral public key and
\* the authenticator)
BoxPublicKeyBytes == 32
BoxSecretKeyBytes == 32
BoxNonceBytes == 24
BoxMacBytes == 16
SignBytes == 64
SealBytes == 48

\* the bytes of a sealed box: the ephemeral public key, the authenticator of
\* the box, and the encrypted message; those of an authenticated box: the
\* nonce, the authenticator and the encrypted message; a signature; a byte
\* that belongs to none of them
ByteField(k, e, to, from, v) == [k |-> k, e |-> e, to |-> to, from |-> from, v |-> v]
EpkBytes(e) == ByteField("epk", e, 0, 0, << >>)
MacBytes(e, to, body) == ByteField("mac", e, to, 0, body)
EncByte(e, to, byte) == ByteField("enc", e, to, 0, << byte >>)
NonceField(n) == ByteField("nonce", n, 0, 0, << >>)
BoxMac(n, to, from, body) == ByteField("boxmac", n, to, from, body)
BoxByte(n, to, from, byte) == ByteField("boxenc", n, to, from, << byte >>)
SigField(from, body) == ByteField("sig", 0, 0, from, body)
RawByte == ByteField("raw", 0, 0, 0, << >>)

\* the number of bytes a field takes
FieldBytes(f) ==
    CASE f.k = "epk" -> BoxPublicKeyBytes
      [] f.k \in {"mac", "boxmac"} -> BoxMacBytes
      [] f.k = "nonce" -> BoxNonceBytes
      [] f.k = "sig" -> SignBytes
      [] OTHER -> 1

RECURSIVE NumBytes(_)
NumBytes(c) == IF c = << >> THEN 0 ELSE FieldBytes(c[1]) + NumBytes(Tail(c))

\* buffer.slice(n): the bytes after the first n; what is left of a field that
\* is cut belongs to no box
RECURSIVE SliceFrom(_, _)
SliceFrom(c, n) ==
    IF n = 0 \/ c = << >> THEN c
    ELSE IF FieldBytes(c[1]) <= n THEN SliceFrom(Tail(c), n - FieldBytes(c[1]))
    ELSE [i \in 1..(FieldBytes(c[1]) - n) |-> RawByte] \o Tail(c)

\* buffer.slice(0, n): the first n bytes
RECURSIVE SliceTo(_, _)
SliceTo(c, n) ==
    IF n = 0 \/ c = << >> THEN << >>
    ELSE IF FieldBytes(c[1]) <= n
    THEN << c[1] >> \o SliceTo(Tail(c), n - FieldBytes(c[1]))
    ELSE [i \in 1..n |-> RawByte]

\* sodium.crypto_box_seal
CryptoBoxSeal(bytes, pub, e) ==
    << EpkBytes(e), MacBytes(e, pub, bytes) >>
    \o [i \in DOMAIN bytes |-> EncByte(e, pub, bytes[i])]

\* sodium.crypto_box_seal_open: throws when the box is too short or does not
\* authenticate under the key pair
CryptoBoxSealOpen(c, pub, priv) ==
    IF NumBytes(c) < SealBytes THEN Err("ciphertext is too short")
    ELSE LET body == SubSeq(c, 3, Len(c))
             authentic ==
                 /\ pub = priv
                 /\ c[1].k = "epk"
                 /\ c[2].k = "mac" /\ c[2].e = c[1].e /\ c[2].to = pub
                 /\ Len(c[2].v) = Len(body)
                 /\ \A i \in DOMAIN body :
                       body[i] = EncByte(c[1].e, pub, c[2].v[i])
         IN  IF authentic THEN Ok(c[2].v)
             ELSE Err("incorrect key pair for the given ciphertext")

\* the key crypto_box shares between two key pairs: the key made of the public
\* key of one and the private key of the other is the key made the other way
\* round, so it is named by the two pairs, the lower first
SharedKey(pub, priv) ==
    IF pub <= priv THEN [to |-> pub, from |-> priv] ELSE [to |-> priv, from |-> pub]

\* sodium.crypto_box_easy: the box of the bytes under the nonce and the key
\* the receiver and the sender share
CryptoBoxEasy(bytes, n, pub, priv) ==
    << BoxMac(n, SharedKey(pub, priv).to, SharedKey(pub, priv).from, bytes) >>
    \o [i \in DOMAIN bytes |->
           BoxByte(n, SharedKey(pub, priv).to, SharedKey(pub, priv).from, bytes[i])]

\* sodium.crypto_box_open_easy: throws when the box is too short or does not
\* authenticate under the nonce and the key the two key pairs share
CryptoBoxOpenEasy(c, nonce, pub, priv) ==
    IF NumBytes(c) < BoxMacBytes THEN Err("ciphertext is too short")
    ELSE LET body == Tail(c)
             key == SharedKey(pub, priv)
             authentic ==
                 /\ Len(nonce) = 1 /\ nonce[1].k = "nonce"
                 /\ c[1].k = "boxmac" /\ c[1].e = nonce[1].e
                 /\ c[1].to = key.to /\ c[1].from = key.from
                 /\ Len(c[1].v) = Len(body)
                 /\ \A i \in DOMAIN body :
                       body[i] = BoxByte(nonce[1].e, key.to, key.from, c[1].v[i])
         IN  IF authentic THEN Ok(c[1].v)
             ELSE Err("incorrect key pair for the given ciphertext")

\* sodium.crypto_sign_detached
CryptoSignDetached(bytes, priv) == << SigField(priv, bytes) >>

\* sodium.crypto_sign_verify_detached: throws when the signature has not the
\* length of a signature
CryptoSignVerifyDetached(signature, bytes, pub) ==
    IF NumBytes(signature) # SignBytes THEN Err("invalid signature length")
    ELSE Ok(signature = << SigField(pub, bytes) >>)

\* the characters of a base64 text: one that carries a byte, the padding, and
\* a character outside the alphabet
B64(byte) == [c |-> "b64", byte |-> byte]
Pad == [c |-> "=", byte |-> RawByte]
Junk == [c |-> "!", byte |-> RawByte]

\* buffer.toString("base64")
Base64Encode(bytes) ==
    [i \in DOMAIN bytes |-> B64(bytes[i])]
    \o (IF NumBytes(bytes) % 3 = 0 THEN << >> ELSE << Pad >>)

\* Buffer.from(text, "base64"): the characters outside the alphabet are
\* skipped, the padding ends the text
RECURSIVE Base64Decode(_)
Base64Decode(text) ==
    IF text = << >> THEN << >>
    ELSE IF text[1].c = "=" THEN << >>
    ELSE IF text[1].c = "b64" THEN << text[1].byte >> \o Base64Decode(Tail(text))
    ELSE Base64Decode(Tail(text))

\* Sodium.sealMessage
SealMessage(message, publicKey, e) ==
    Base64Encode(CryptoBoxSeal(Utf8Encode(message), publicKey, e))

\* Sodium.unsealMessage
UnsealMessage(ciphertext, publicKey, privateKey) ==
    LET opened == CryptoBoxSealOpen(Base64Decode(ciphertext), publicKey, privateKey)
    IN  IF opened.ok THEN Ok(Utf8Decode(opened.val)) ELSE opened

\* Sodium.sealMessageAuthenticated: the nonce goes before the box
SealMessageAuthenticated(message, publicKeyReceiver, privateKeySender, n) ==
    Base64Encode(<< NonceField(n) >>
                 \o CryptoBoxEasy(Utf8Encode(message), n, publicKeyReceiver,
                                  privateKeySender))

\* Sodium.unsealMessageAuthenticated
UnsealMessageAuthenticated(concatCyphertext, publicKeySender, privateKeyReceiver) ==
    LET concatCyphertextBuffer == Base64Decode(concatCyphertext)
    IN  IF NumBytes(concatCyphertextBuffer) <= BoxNonceBytes
        THEN Err("ciphertext is too short")
        ELSE LET nonce == SliceTo(concatCyphertextBuffer, BoxNonceBytes)
                 cyphertext == SliceFrom(concatCyphertextBuffer, BoxNonceBytes)
                 opened == CryptoBoxOpenEasy(cyphertext, nonce, publicKeySender,
                                             privateKeyReceiver)
             IN  IF opened.ok THEN Ok(Utf8Decode(opened.val)) ELSE opened

\* Sodium.signMessage
SignMessage(message, privateKey) ==
    Base64Encode(CryptoSignDetached(Utf8Encode(message), privateKey))

\* Sodium.verifySignature
VerifySignature(signature, message, publicKey) ==
    CryptoSignVerifyDetached(Base64Decode(signature), Utf8Encode(message), publicKey)

\* Sodium.boxKeyPair, Sodium.signKeyPair: the pair k the library drew
StringKeyPair(k, keyType) == [publicKey |-> k, privateKey |-> k, keyType |-> keyType]

\* a call and its arguments; message is the string the ciphertext was made of
Call(fn, message, text, pub, priv, how, data, keychain) ==
    [fn |-> fn, message |-> message, text |-> text, pub |-> pub, priv |-> priv,
     how |-> how, data |-> data, keychain |-> keychain]

\* the texts a receiver can be handed in place of a sealed text: the text
\* itself, cut short, with a character outside the alphabet in it, with a byte
\* of the box changed, and nothing
Handed(how, text) ==
    CASE how = "sealed" -> text
      [] how = "cut" -> SubSeq(text, 1, 1)
      [] how = "junk" -> << text[1], Junk >> \o Tail(text)
      [] how = "changed" -> << text[1], B64(RawByte) >> \o Tail(Tail(text))
      [] how = "empty" -> << >>
Hows == {"sealed", "cut", "junk", "changed", "empty"}

----------------------------------------------------------------------------
(* MemberManager: decryptMembers, decryptMembersWithoutRegistrations *)

\* the key pair of the organization, kept in the keychain
OrgKey == 1

\* JSON texts are sequences of code units, as the strings of Sodium are
IsWhitespace(c) == c \in {32, 9, 10, 13}
IsDigit(c) == c >= 48 /\ c <= 57
IsHexDigit(c) == IsDigit(c) \/ (c >= 65 /\ c <= 70) \/ (c >= 97 /\ c <= 102)
HexValue(c) == IF IsDigit(c) THEN c - 48 ELSE IF c >= 97 THEN c - 87 ELSE c - 55

\* the words of JSON: null, true, false
NullWord == << 110, 117, 108, 108 >>
TrueWord == << 116, 114, 117, 101 >>
FalseWord == << 102, 97, 108, 115, 101 >>

\* a value of JSON.  v holds nothing for null, true and false, the code units
\* of a string, the items of an array, the members [key, val] of an object in
\* the order of their first appearance, and << m, e >> for the number m * 10^e
JsonValue(t, v) == [t |-> t, v |-> v]
JsonNull == JsonValue("null", << >>)

\* what a rule of the grammar read: the value and the index after it
Parsed(val, i) == [ok |-> TRUE, val |-> val, i |-> i]
NotParsed == [ok |-> FALSE, val |-> JsonNull, i |-> 0]

RECURSIVE SkipWhitespace(_, _)
SkipWhitespace(s, i) ==
    IF i <= Len(s) /\ IsWhitespace(s[i]) THEN SkipWhitespace(s, i + 1) ELSE i

StartsWith(s, i, word) ==
    i + Len(word) - 1 <= Len(s) /\ SubSeq(s, i, i + Len(word) - 1) = word

\* the index after the digits that start at i
RECURSIVE SkipDigits(_, _)
SkipDigits(s, i) == IF i <= Len(s) /\ IsDigit(s[i]) THEN SkipDigits(s, i + 1) ELSE i

\* the number the digits s[i] .. s[j - 1] write, after acc
RECURSIVE DigitsValue(_, _, _, _)
DigitsValue(s, i, j, acc) ==
    IF i >= j THEN acc ELSE DigitsValue(s, i + 1, j, acc * 10 + (s[i] - 48))

\* m * 10^e without the zeros m ends with
RECURSIVE Normal(_, _)
Normal(m, e) ==
    IF m = 0 THEN << 0, 0 >>
    ELSE IF m % 10 = 0 THEN Normal(m \div 10, e + 1)
    ELSE << m, e >>

\* 10^j, and the number of digits of m
RECURSIVE Pow10(_)
Pow10(j) == IF j = 0 THEN 1 ELSE 10 * Pow10(j - 1)

RECURSIVE NumDigits(_)
NumDigits(m) == IF m < 10 THEN 1 ELSE 1 + NumDigits(m \div 10)

\* a Number that is not finite
Infinity == << "Infinity" >>
NegativeInfinity == << "-Infinity" >>

\* the digits after the point, four by four, of half a step of the smallest
\* doubles, 2^-1075, counted in 1e-324 (2.4703 2822 9206 ...), and of the
\* number of half steps in 1e-324, 2^1075 / 10^324 (0.4048 0450 6614 ...)
HalfStep == << 4703, 2822, 9206, 2327, 2088, 2843 >>
HalfStepsPerUnit == << 4048, 450, 6614, 6212, 3670, 4990 >>

\* what is left of (n * limb + r) after its last four digits
Limb(n, limb, r) ==
    ((n \div 10000) * limb) + (r \div 10000)
    + (((n % 10000) * limb + (r % 10000)) \div 10000)

\* the whole part of n times the fraction whose digits are K[i], K[i + 1], ...
RECURSIVE FracMul(_, _, _)
FracMul(n, K, i) == IF i > Len(K) THEN 0 ELSE Limb(n, K[i], FracMul(n, K, i + 1))

\* the whole part of n half steps, counted in 1e-324
HalfSteps(n) == 2 * n + FracMul(n, HalfStep, 1)

\* the double nearest to m * 10^e, for e <= -324: it is k steps of 2^-1074,
\* and is written with the fewest digits that give it back, by the decimal
\* nearest to it when several have as few; nothing when it is nearer to 0
\* than to the first step
Subnormal(m, e) ==
    LET j == 0 - 324 - e
        k == IF j > 9 THEN 0
             ELSE (FracMul(m, HalfStepsPerUnit, 1) + Pow10(j)) \div (2 * Pow10(j))
        ten == (HalfSteps(2 * k + 1) \div 10) * 10
    IN  IF k = 0 THEN << 0, 0 >>
        ELSE IF ten > HalfSteps(2 * k - 1) THEN Normal(ten, 0 - 324)
        ELSE << HalfSteps(2 * k) + (FracMul(4 * k, HalfStep, 1) % 2), 0 - 324 >>

\* the Number a decimal m * 10^e is read as, m without zeros at its end:
\* Infinity from 2^1024 - 2^970 = 1.797693134862315807e308 on, the nearest
\* step of 2^-1074 below 1e-323, and the decimal itself between the two
Double(m, e) ==
    IF m = 0 THEN << 0, 0 >>
    ELSE IF \/ NumDigits(m) - 1 + e > 308
            \/ /\ NumDigits(m) - 1 + e = 308
               /\ m > 1797693134 \div Pow10(10 - NumDigits(m))
    THEN Infinity
    ELSE IF e <= 0 - 324 THEN Subnormal(m, e)
    ELSE << m, e >>

\* the Number with its sign
Signed(negative, v) ==
    IF ~negative THEN v
    ELSE IF Len(v) = 1 THEN NegativeInfinity
    ELSE << 0 - v[1], v[2] >>

\* number: -? (0 | [1-9] digits) (. digits)? ([eE] [+-]? digits)?
ParseNumber(s, i) ==
    LET negative == s[i] = 45
        int == IF negative THEN i + 1 ELSE i
        frac == IF int <= Len(s) /\ s[int] = 48 THEN int + 1 ELSE SkipDigits(s, int)
        hasFraction == frac <= Len(s) /\ s[frac] = 46
        exp == IF hasFraction THEN SkipDigits(s, frac + 1) ELSE frac
        hasExponent == exp <= Len(s) /\ s[exp] \in {69, 101}
        hasSign == hasExponent /\ exp + 1 <= Len(s) /\ s[exp + 1] \in {43, 45}
        expDigits == IF hasSign THEN exp + 2 ELSE exp + 1
        end == IF hasExponent THEN SkipDigits(s, expDigits) ELSE exp
        digits == DigitsValue(s, frac + 1, exp, DigitsValue(s, int, frac, 0))
        exponent == IF ~hasExponent THEN 0
                    ELSE IF hasSign /\ s[exp + 1] = 45
                    THEN 0 - DigitsValue(s, expDigits, end, 0)
                    ELSE DigitsValue(s, expDigits, end, 0)
        fraction == IF hasFraction THEN exp - (frac + 1) ELSE 0
        normal == Normal(digits, exponent - fraction)
    IN  IF frac = int \/ (hasFraction /\ exp = frac + 1) \/ (hasExponent /\ end = expDigits)
        THEN NotParsed
        ELSE Parsed(JsonValue("number", Signed(negative, Double(normal[1], normal[2]))),
                    end)

\* the character an escape stands for: \" \\ \/ \b \f \n \r \t
IsEscape(c) == c \in {34, 92, 47, 98, 102, 110, 114, 116}
Escaped(c) ==
    CASE c = 98 -> 8 [] c = 102 -> 12 [] c = 110 -> 10 [] c = 114 -> 13 [] c = 116 -> 9
      [] OTHER -> c

\* the rest of a string, from i, after the characters acc, to its closing quote
RECURSIVE ParseString(_, _, _)
ParseString(s, i, acc) ==
    IF i > Len(s) THEN NotParsed
    ELSE IF s[i] = 34 THEN Parsed(JsonValue("string", acc), i + 1)
    ELSE IF s[i] < 32 THEN NotParsed
    ELSE IF s[i] # 92 THEN ParseString(s, i + 1, Append(acc, s[i]))
    ELSE IF i + 1 > Len(s) THEN NotParsed
    ELSE IF s[i + 1] = 117
    THEN IF i + 5 <= Len(s) /\ \A k \in 2..5 : IsHexDigit(s[i + k])
         THEN ParseString(s, i + 6,
                          Append(acc, HexValue(s[i + 2]) * 4096 + HexValue(s[i + 3]) * 256
                                      + HexValue(s[i + 4]) * 16 + HexValue(s[i + 5])))
         ELSE NotParsed
    ELSE IF IsEscape(s[i + 1]) THEN ParseString(s, i + 2, Append(acc, Escaped(s[i + 1])))
    ELSE NotParsed

\* the members of an object with the member of a key set: the value of a key
\* that is there already is replaced
SetMember(members, key, val) ==
    IF \E k \in DOMAIN members : members[k].key = key
    THEN [k \in DOMAIN members |->
             IF members[k].key = key THEN [key |-> key, val |-> val] ELSE members[k]]
    ELSE Append(members, [key |-> key, val |-> val])

RECURSIVE ParseValue(_, _)
RECURSIVE ParseElements(_, _, _)
RECURSIVE ParseMembers(_, _, _)

\* value: an object, an array, a string, a word or a number, after white space
ParseValue(s, from) ==
    LET i == SkipWhitespace(s, from) IN
    IF i > Len(s) THEN NotParsed
    ELSE IF s[i] = 123
    THEN LET j == SkipWhitespace(s, i + 1)
         IN  IF j <= Len(s) /\ s[j] = 125 THEN Parsed(JsonValue("object", << >>), j + 1)
             ELSE ParseMembers(s, j, << >>)
    ELSE IF s[i] = 91
    THEN LET j == SkipWhitespace(s, i + 1)
         IN  IF j <= Len(s) /\ s[j] = 93 THEN Parsed(JsonValue("array", << >>), j + 1)
             ELSE ParseElements(s, j, << >>)
    ELSE IF s[i] = 34 THEN ParseString(s, i + 1, << >>)
    ELSE IF StartsWith(s, i, NullWord) THEN Parsed(JsonNull, i + 4)
    ELSE IF StartsWith(s, i, TrueWord) THEN Parsed(JsonValue("true", << >>), i + 4)
    ELSE IF StartsWith(s, i, FalseWord) THEN Parsed(JsonValue("false", << >>), i + 5)
    ELSE IF s[i] = 45 \/ IsDigit(s[i]) THEN ParseNumber(s, i)
    ELSE NotParsed

\* the items of an array from i, after the items acc, to its closing bracket
ParseElements(s, i, acc) ==
    LET item == ParseValue(s, i)
        j == SkipWhitespace(s, item.i)
    IN  IF ~item.ok \/ j > Len(s) THEN NotParsed
        ELSE IF s[j] = 93 THEN Parsed(JsonValue("array", Append(acc, item.val)), j + 1)
        ELSE IF s[j] = 44 THEN ParseElements(s, j + 1, Append(acc, item.val))
        ELSE NotParsed

\* the members of an object from i, after the members acc, to its closing brace
ParseMembers(s, from, acc) ==
    LET i == SkipWhitespace(s, from) IN
    IF i > Len(s) \/ s[i] # 34 THEN NotParsed
    ELSE LET key == ParseString(s, i + 1, << >>)
             colon == SkipWhitespace(s, key.i)
         IN  IF ~key.ok \/ colon > Len(s) \/ s[colon] # 58 THEN NotParsed
             ELSE LET val == ParseValue(s, colon + 1)
                      j == SkipWhitespace(s, val.i)
                      members == SetMember(acc, key.val.v, val.val)
                  IN  IF ~val.ok \/ j > Len(s) THEN NotParsed
                      ELSE IF s[j] = 125 THEN Parsed(JsonValue("object", members), j + 1)
                      ELSE IF s[j] = 44 THEN ParseMembers(s, j + 1, members)
                      ELSE NotParsed

\* JSON.parse: the value of a JSON text; throws on a text that is none
JsonParse(json) ==
    LET value == ParseValue(json, 1)
    IN  IF value.ok /\ SkipWhitespace(json, value.i) > Len(json) THEN Ok(value.val)
        ELSE Err("SyntaxError")

\* the decimal digits of a natural number
RECURSIVE Decimal(_)
Decimal(n) == IF n < 10 THEN << 48 + n >> ELSE Decimal(n \div 10) \o << 48 + (n % 10) >>

\* the names "version", "data" and "firstName"
VersionName == << 118, 101, 114, 115, 105, 111, 110 >>
DataName == << 100, 97, 116, 97 >>
FirstName == << 102, 105, 114, 115, 116, 78, 97, 109, 101 >>

\* the text of a string, of a member and of an object with the members given
Quoted(name) == << 34 >> \o name \o << 34 >>
MemberText(name, text) == Quoted(name) \o << 58 >> \o text
ObjectText(members) ==
    << 123 >>
    \o (IF members = << >> THEN << >> ELSE members[1])
    \o (IF Len(members) > 1 THEN << 44 >> \o members[2] ELSE << >>)
    \o << 125 >>

\* new VersionBox(details).encode({version}): {"version": version, "data": details}
VersionBoxText(version, detailsText) ==
    ObjectText(<< MemberText(VersionName, Decimal(version)),
                  MemberText(DataName, detailsText) >>)

\* the documents a member's envelope can hold: the version box of the details
\* {"firstName":"a"}, the version box of details without a name, "{}", which is
\* no version box, and "a", which is no JSON
BoxDocument ==
    VersionBoxText(Version, ObjectText(<< MemberText(FirstName, Quoted(<< 97 >>)) >>))
NamelessDocument == VersionBoxText(Version, ObjectText(<< >>))
EmptyDocument == << 123, 125 >>
NoDocument == << 97 >>

\* ObjectData.field(name): throws when the value has no such field
HasField(value, name) ==
    value.t = "object" /\ \E k \in DOMAIN value.v : value.v[k].key = name
Field(value, name) ==
    IF HasField(value, name)
    THEN Ok(value.v[CHOOSE k \in DOMAIN value.v : value.v[k].key = name].val)
    ELSE Err("DecodingError")

\* ObjectData.integer: throws when the value is no whole number
Integer(value) ==
    IF value.t = "number" /\ Len(value.v) = 2 /\ value.v[2] >= 0
    THEN Ok(value.v) ELSE Err("DecodingError")

\* ObjectData.string
StringOf(value) == IF value.t = "string" THEN Ok(value.v) ELSE Err("DecodingError")

\* MemberDetails.decode: the first name stands for the fields of the details
MemberDetailsDecode(value) ==
    LET firstName == Field(value, FirstName)
    IN  IF ~firstName.ok THEN firstName
        ELSE LET string == StringOf(firstName.val)
             IN  IF ~string.ok THEN string ELSE Ok([firstName |-> string.val])

\* a decoder that takes the version box for the details
Decode_Any(value) == Ok([firstName |-> << >>])

\* data.decode(new VersionBoxDecoder(MemberDetails)).data: the version is read
\* as an integer, then the data is decoded; throws when a field is missing or
\* is of another type
Decode(value) ==
    LET version == Field(value, VersionName)
        data == Field(value, DataName)
    IN  IF ~version.ok THEN version
        ELSE IF ~Integer(version.val).ok THEN Integer(version.val)
        ELSE IF ~data.ok THEN data
        ELSE MemberDetailsDecode(data.val)

\* decryptedDetails of a member
NoDetails == [decoded |-> FALSE, of |-> << >>]
Details(data) == [decoded |-> TRUE, of |-> data]

\* JSON.parse(json), when unsealMessage returned json
ParseUnsealed(json) == IF json.ok THEN JsonParse(json.val) ELSE json

\* data.decode(...).data, when JSON.parse returned value
DecodeParsed(value) == IF value.ok THEN Decode(value.val) ELSE value

\* the catch: what was thrown is logged, and the member has no details
Caught(details) == IF details.ok THEN Details(details.val) ELSE NoDetails

\* the rest of the try block, once unsealMessage has settled with json: what
\* unsealMessage, JSON.parse or decode throws is caught
ReadDetails(json) == Caught(DecodeParsed(ParseUnsealed(json)))

\* Member.create / MemberWithRegistrations.create; fillGroups lists the calls
\* of fillGroups made on the member, by the groups each was given
CreateMember(member, details, withRegistrations) ==
    [id |-> member.id, details |-> details, publicKey |-> member.publicKey,
     registrations |-> IF withRegistrations THEN member.registrations ELSE << >>,
     fillGroups |-> << >>]

\* decryptedMember.fillGroups(groups)
FillGroups(decryptedMember, groups) ==
    [decryptedMember EXCEPT !.fillGroups = Append(@, groups)]

\* the member the loop pushes: decryptMembers fills it with the groups it
\* read from the organization when it was called, the other method does not
DecryptedMember(member, details, withRegistrations, groups) ==
    IF withRegistrations
    THEN FillGroups(CreateMember(member, details, withRegistrations), groups)
    ELSE CreateMember(member, details, withRegistrations)

DecryptFns == {"decryptMembers", "decryptMembersWithoutRegistrations"}

\* a keychain that has an item whatever is asked
GetItem_Any(keychain) == TRUE

\* Keychain.getItem(OrganizationManager.organization.publicKey): whether the
\* keychain has the item of the organization
GetItem(keychain) == keychain

\* the loop from the member after those of members on, up to the next await:
\* a member whose envelope is not set is created without details
RECURSIVE DecryptLoop(_, _, _, _)
DecryptLoop(data, members, withRegistrations, groups) ==
    IF Len(members) = Len(data) THEN members
    ELSE IF data[Len(members) + 1].encryptedForOrganization # << >> THEN members
    ELSE DecryptLoop(data,
                     Append(members,
                            DecryptedMember(data[Len(members) + 1], NoDetails,
                                            withRegistrations, groups)),
                     withRegistrations, groups)

\* OrganizationManager.organization.groups: the lists of groups an
\* organization can have when a method reads them
GroupLists == {<< 1 >>, << 1, 2 >>}

\* the groups a method reads: decryptMembers reads those of the organization,
\* the other method none
GroupsRead(fn, groups) == IF fn = "decryptMembers" THEN groups ELSE << >>

\* the groupId loadMembers is given, 0 for null
GroupIds == {0, 1}

\* session.authenticatedServer.request of loadMembers: the path is made of
\* the groupId as a string, "null" when there is none
MembersRequest(groupId, waitingList) ==
    [method |-> "GET",
     path |-> << "/organization/group/",
                 IF groupId = 0 THEN "null" ELSE ToString(groupId), "/members" >>,
     query |-> IF waitingList THEN {"waitingList"} ELSE {}]

\* the envelopes a server can send: none, details sealed to the organization,
\* details sealed to another key, a sealed text cut short, and sealed texts
\* that are no JSON, no version box, or a version box of details without a name
EnvelopeKinds == {"none", "ok", "otherKey", "cut", "noJson", "noBox", "noName"}
Envelope(kind) ==
    CASE kind = "none" -> << >>
      [] kind = "ok" -> SealMessage(BoxDocument, OrgKey, 1)
      [] kind = "otherKey" -> SealMessage(BoxDocument, 2, 1)
      [] kind = "cut" -> Handed("cut", SealMessage(BoxDocument, OrgKey, 1))
      [] kind = "noJson" -> SealMessage(NoDocument, OrgKey, 1)
      [] kind = "noBox" -> SealMessage(EmptyDocument, OrgKey, 1)
      [] kind = "noName" -> SealMessage(NamelessDocument, OrgKey, 1)

MemberIds == {1, 2}

\* an EncryptedMember(WithRegistrations); kind records how its envelope was made
EncryptedMember(id, kind) ==
    [id |-> id, encryptedForOrganization |-> Envelope(kind), publicKey |-> id,
     registrations |-> << id >>, kind |-> kind]

EncryptedMembers == {EncryptedMember(id, kind) : id \in MemberIds, kind \in EnvelopeKinds}

\* the batches of at most n members
Batches(n) == UNION {[1..k -> EncryptedMembers] : k \in 0..n}

\* the responses of the server to the request of the members of a group: the
\* batches of at most n members, each member once
Responses(n) ==
    {data \in Batches(n) : \A i, j \in DOMAIN data : data[i].id = data[j].id => i = j}

----------------------------------------------------------------------------
(* The asynchronous methods of Sodium and of MemberManager.  jobs is the queue
   of the continuations that are ready to run, in the order in which they run.
   A method that awaits sodium.ready before it has resolved is in no queue: it
   waits in readyWait, and is queued behind the continuations already queued
   when sodium.ready resolves *)

\* the result of a promise that has not settled
Pending == [ok |-> FALSE, val |-> << >>, err |-> "pending"]

\* a method that awaits: the call, the await it is at, what it has computed so
\* far, the result of the promise it awaited, and the method that awaits it
\* (none when the application called it)
Job(c, stage, parent) ==
    [call |-> c, stage |-> stage, acc |-> 0, result |-> Pending, members |-> << >>,
     parent |-> parent]

shopVars == << mgrVars, dbVars, idbVars, net, srvVal, calls, histVars, last,
               diskVersion, objectStores, srvOrders, listening >>

\* the methods suspended at an await of Sodium or queued to go on
Suspended == readyWait \o jobs

\* every method of Sodium starts with await this.loadIfNeeded(), which awaits
\* sodium.ready: once it has resolved the continuation is queued at once, after
\* rest, the continuations queued before; until then it waits for the promise
Invoke(c, parent, rest) ==
    IF sodiumReady
    THEN jobs' = Append(rest, Job(c, "ready", parent)) /\ UNCHANGED readyWait
    ELSE jobs' = rest /\ readyWait' = Append(readyWait, Job(c, "ready", parent))

SodiumCall(c) ==
    /\ Invoke(c, << >>, jobs)
    /\ UNCHANGED << loaded, call, ret, sodiumReady, sessionWait, shopVars >>

NoArgs(fn) == Call(fn, << >>, << >>, 0, 0, "none", << >>, FALSE)

LoadIfNeededCall == SodiumCall(NoArgs("loadIfNeeded"))
GetBoxPublicKeyBytesCall == SodiumCall(NoArgs("getBoxPublicKeyBytes"))
GetBoxPrivateKeyBytesCall == SodiumCall(NoArgs("getBoxPrivateKeyBytes"))
GetBoxNonceBytesCall == SodiumCall(NoArgs("getBoxNonceBytes"))
GetBoxEncryptedPrivateKeyBytesCall == SodiumCall(NoArgs("getBoxEncryptedPrivateKeyBytes"))
BoxKeyPairCall == SodiumCall(NoArgs("boxKeyPair"))
SignKeyPairCall == SodiumCall(NoArgs("signKeyPair"))

SignMessageCall(message, priv) ==
    SodiumCall(Call("signMessage", message, << >>, 0, priv, "none", << >>, FALSE))

\* verifySignature of what became of the signature made last
VerifySignatureCall(how, message, pub) ==
    /\ call.fn = "signMessage"
    /\ SodiumCall(Call("verifySignature", message, Handed(how, ret.val), pub, 0, how,
                       << >>, FALSE))

SealMessageAuthenticatedCall(message, pub, priv) ==
    SodiumCall(Call("sealMessageAuthenticated", message, << >>, pub, priv, "none",
                    << >>, FALSE))

\* unsealMessageAuthenticated of what became of the text sealed last, or of
\* the empty text
UnsealMessageAuthenticatedCall(how, pub, priv) ==
    /\ call.fn = "sealMessageAuthenticated" \/ how = "empty"
    /\ SodiumCall(Call("unsealMessageAuthenticated",
                       IF call.fn = "sealMessageAuthenticated" THEN call.message ELSE << >>,
                       IF how = "empty" THEN << >> ELSE Handed(how, ret.val),
                       pub, priv, how, << >>, FALSE))

SealMessageCall(message, pub) ==
    SodiumCall(Call("sealMessage", message, << >>, pub, 0, "none", << >>, FALSE))

\* unsealMessage of what became of the text sealed last, or of the empty text
UnsealMessageCall(how, pub, priv) ==
    /\ call.fn = "sealMessage" \/ how = "empty"
    /\ SodiumCall(Call("unsealMessage",
                       IF call.fn = "sealMessage" THEN call.message ELSE << >>,
                       IF how = "empty" THEN << >> ELSE Handed(how, ret.val),
                       pub, priv, how, << >>, FALSE))

\* the promise sodium.ready resolves: the methods that await it are queued, in
\* the order of their awaits, behind the continuations already queued
SodiumReady ==
    /\ ~sodiumReady
    /\ sodiumReady' = TRUE
    /\ jobs' = jobs \o readyWait
    /\ readyWait' = << >>
    /\ UNCHANGED << loaded, call, ret, sessionWait, shopVars >>

\* the promise of a method settles: the method that awaits it goes on in a
\* later turn of the queue, with the result
Settle(job, result, rest) ==
    IF job.parent = << >>
    THEN /\ jobs' = rest
         /\ call' = job.call
         /\ ret' = result
    ELSE /\ jobs' = Append(rest, [job.parent[1] EXCEPT !.result = result])
         /\ UNCHANGED << call, ret >>

\* loadIfNeeded goes on after await sodium.ready
LoadIfNeededResumes ==
    /\ jobs # << >>
    /\ Head(jobs).stage = "ready"
    /\ loaded' = TRUE
    /\ IF Head(jobs).call.fn = "loadIfNeeded"
       THEN Settle(Head(jobs), Ok(<< >>), Tail(jobs))
       ELSE /\ jobs' = Append(Tail(jobs), [Head(jobs) EXCEPT !.stage = "loaded"])
            /\ UNCHANGED << call, ret >>
    /\ UNCHANGED << sodiumReady, readyWait, sessionWait, shopVars >>

\* what a method returns or throws after await this.loadIfNeeded(); e, n and k
\* are the ephemeral key pair, the nonce and the key pair the library draws
Returns(c, e, n, k) ==
    CASE c.fn = "getBoxPublicKeyBytes" -> Ok(BoxPublicKeyBytes)
      [] c.fn = "getBoxPrivateKeyBytes" -> Ok(BoxSecretKeyBytes)
      [] c.fn = "getBoxNonceBytes" -> Ok(BoxNonceBytes)
      [] c.fn = "boxKeyPair" -> Ok(StringKeyPair(k, "x25519"))
      [] c.fn = "signKeyPair" -> Ok(StringKeyPair(k, "ed25519"))
      [] c.fn = "verifySignature" -> VerifySignature(c.text, c.message, c.pub)
      [] c.fn = "signMessage" -> Ok(SignMessage(c.message, c.priv))
      [] c.fn = "sealMessageAuthenticated" ->
            Ok(SealMessageAuthenticated(c.message, c.pub, c.priv, n))
      [] c.fn = "unsealMessageAuthenticated" ->
            UnsealMessageAuthenticated(c.text, c.pub, c.priv)
      [] c.fn = "sealMessage" -> Ok(SealMessage(c.message, c.pub, e))
      [] c.fn = "unsealMessage" -> UnsealMessage(c.text, c.pub, c.priv)

\* a method of Sodium goes on after await this.loadIfNeeded(), to its end
MethodResumes(e, n, k) ==
    /\ jobs # << >>
    /\ Head(jobs).stage = "loaded"
    /\ Head(jobs).call.fn # "getBoxEncryptedPrivateKeyBytes"
    /\ Settle(Head(jobs), Returns(Head(jobs).call, e, n, k), Tail(jobs))
    /\ UNCHANGED << loaded, sodiumReady, readyWait, sessionWait, shopVars >>

\* getBoxEncryptedPrivateKeyBytes goes on: after await this.loadIfNeeded() it
\* calls getBoxPrivateKeyBytes, after that getBoxNonceBytes, after that it
\* returns the sum
GetBoxEncryptedPrivateKeyBytesResumes ==
    /\ jobs # << >>
    /\ Head(jobs).call.fn = "getBoxEncryptedPrivateKeyBytes"
    /\ Head(jobs).stage \in {"loaded", "privateKeyBytes", "nonceBytes"}
    /\ LET job == Head(jobs)
       IN  CASE job.stage = "loaded" ->
                   /\ Invoke(NoArgs("getBoxPrivateKeyBytes"),
                             << [job EXCEPT !.stage = "privateKeyBytes"] >>, Tail(jobs))
                   /\ UNCHANGED << call, ret >>
             [] job.stage = "privateKeyBytes" ->
                   /\ Invoke(NoArgs("getBoxNonceBytes"),
                             << [job EXCEPT !.stage = "nonceBytes",
                                            !.acc = job.result.val,
                                            !.result = Pending] >>, Tail(jobs))
                   /\ UNCHANGED << call, ret >>
             [] job.stage = "nonceBytes" ->
                   /\ Settle(job, Ok(job.acc + job.result.val + BoxMacBytes), Tail(jobs))
                   /\ UNCHANGED readyWait
    /\ UNCHANGED << loaded, sodiumReady, sessionWait, shopVars >>

\* a call of MemberManager: the members it is given, whether the keychain has
\* the item of the organization and the groups the organization has when the
\* method reads them, and the request loadMembers makes
MembersCall(fn, data, keychain, groups, request) ==
    [fn |-> fn, message |-> << >>, text |-> << >>, pub |-> 0, priv |-> 0,
     how |-> "none", data |-> data, keychain |-> keychain, groups |-> groups,
     request |-> request]

NoRequest == [method |-> "none", path |-> << >>, query |-> {}]

\* decryptMembers / decryptMembersWithoutRegistrations up to the first await,
\* called by the method parent (none when the application called it), rest
\* being the methods that go on after the caller: decryptMembers reads the
\* groups of the organization; both throw when the keychain has no item of
\* the organization, else await session.decryptKeychainItem
DecryptMembers(c, parent, rest) ==
    IF ~GetItem(c.keychain)
    THEN /\ Settle(Job(c, "keyPair", parent), Err("Missing organization keychain"), rest)
         /\ UNCHANGED sessionWait
    ELSE /\ sessionWait' = Append(sessionWait, Job(c, "keyPair", parent))
         /\ jobs' = rest
         /\ UNCHANGED << call, ret >>

\* the application calls decryptMembers / decryptMembersWithoutRegistrations
DecryptMembersCall(fn, data, keychain, groups) ==
    /\ DecryptMembers(MembersCall(fn, data, keychain, GroupsRead(fn, groups), NoRequest),
                      << >>, jobs)
    /\ UNCHANGED << loaded, sodiumReady, readyWait, shopVars >>

\* loadMembers up to its first await: the request of the members of the group
LoadMembersCall(groupId, waitingList) ==
    /\ sessionWait' = Append(sessionWait,
                             Job(MembersCall("loadMembers", << >>, FALSE, << >>,
                                             MembersRequest(groupId, waitingList)),
                                 "request", << >>))
    /\ UNCHANGED << loaded, call, ret, sodiumReady, readyWait, jobs, shopVars >>

\* the request of loadMembers is answered with the members data
MembersAnswered(i, data) ==
    /\ i \in DOMAIN sessionWait
    /\ sessionWait[i].stage = "request"
    /\ jobs' = Append(jobs, [sessionWait[i] EXCEPT !.result = Ok(data)])
    /\ sessionWait' = Remove(sessionWait, i)
    /\ UNCHANGED << loaded, call, ret, sodiumReady, readyWait, shopVars >>

\* the request of loadMembers fails
MembersRequestFailed(i) ==
    /\ i \in DOMAIN sessionWait
    /\ sessionWait[i].stage = "request"
    /\ jobs' = Append(jobs, [sessionWait[i] EXCEPT !.result = Err("network")])
    /\ sessionWait' = Remove(sessionWait, i)
    /\ UNCHANGED << loaded, call, ret, sodiumReady, readyWait, shopVars >>

\* loadMembers goes on after the request: it throws what the request threw,
\* or calls decryptMembers with the data of the response and awaits it; the
\* call records the data, and the keychain and the groups decryptMembers finds
LoadMembersResumes(keychain, groups) ==
    /\ jobs # << >>
    /\ Head(jobs).call.fn = "loadMembers"
    /\ Head(jobs).stage = "request"
    /\ IF ~Head(jobs).result.ok
       THEN /\ Settle(Head(jobs), Head(jobs).result, Tail(jobs))
            /\ UNCHANGED sessionWait
       ELSE DecryptMembers(MembersCall("decryptMembers", Head(jobs).result.val,
                                       keychain, groups, NoRequest),
                           << [Head(jobs) EXCEPT
                                  !.stage = "decrypted",
                                  !.result = Pending,
                                  !.call = MembersCall("loadMembers",
                                                       Head(jobs).result.val, keychain,
                                                       groups, Head(jobs).call.request)] >>,
                           Tail(jobs))
    /\ UNCHANGED << loaded, sodiumReady, readyWait, shopVars >>

\* loadMembers goes on after decryptMembers: it returns what decryptMembers
\* returned, or throws what it threw
LoadMembersReturns ==
    /\ jobs # << >>
    /\ Head(jobs).call.fn = "loadMembers"
    /\ Head(jobs).stage = "decrypted"
    /\ Settle(Head(jobs), Head(jobs).result, Tail(jobs))
    /\ UNCHANGED << loaded, sodiumReady, readyWait, sessionWait, shopVars >>

\* session.decryptKeychainItem resolves with the key pair of the organization
KeychainItemDecrypted(i) ==
    /\ i \in DOMAIN sessionWait
    /\ sessionWait[i].stage = "keyPair"
    /\ jobs' = Append(jobs, [sessionWait[i] EXCEPT !.result = Ok(OrgKey)])
    /\ sessionWait' = Remove(sessionWait, i)
    /\ UNCHANGED << loaded, call, ret, sodiumReady, readyWait, shopVars >>

\* the members that are created when the method goes on: after the key pair
\* none, after unsealMessage the member it was called for
Created(job) ==
    IF job.stage = "keyPair" THEN job.members
    ELSE Append(job.members,
                DecryptedMember(job.call.data[Len(job.members) + 1],
                                ReadDetails(job.result), job.call.fn = "decryptMembers",
                                job.call.groups))

\* the method calls unsealMessage for the member after members, or returns the
\* members when there is none
UnsealNext(job, members, keyPair) ==
    IF Len(members) = Len(job.call.data)
    THEN Settle(job, Ok(members), Tail(jobs)) /\ UNCHANGED readyWait
    ELSE /\ Invoke(Call("unsealMessage", << >>,
                        job.call.data[Len(members) + 1].encryptedForOrganization,
                        keyPair, keyPair, "none", << >>, FALSE),
                   << [job EXCEPT !.stage = "unsealed", !.acc = keyPair,
                                  !.members = members, !.result = Pending] >>,
                   Tail(jobs))
         /\ UNCHANGED << call, ret >>

\* the method goes on with the key pair, or with what unsealMessage returned
\* or threw for the member it is at: it creates that member, then those that
\* follow without an envelope, and calls unsealMessage for the one after them,
\* or returns the members
DecryptResumes ==
    /\ jobs # << >>
    /\ Head(jobs).stage \in {"keyPair", "unsealed"}
    /\ UnsealNext(Head(jobs),
                  DecryptLoop(Head(jobs).call.data, Created(Head(jobs)),
                              Head(jobs).call.fn = "decryptMembers",
                              Head(jobs).call.groups),
                  IF Head(jobs).stage = "keyPair" THEN Head(jobs).result.val
                  ELSE Head(jobs).acc)
    /\ UNCHANGED << loaded, sodiumReady, sessionWait, shopVars >>

\* the messages of the calls that overlap
Overlapping == {<< >>, << 97 >>, << 97, 97 >>}

\* a call is made while other calls await, before any call returned
MayOverlap(message) ==
    /\ call = NoCall
    /\ Len(Suspended) < MaxPending
    /\ message \in Overlapping
    /\ \A j \in DOMAIN Suspended : Suspended[j].call.message \in Overlapping

\* the first calls overlap, at most MaxPending at a time: the seal methods, and
\* the unseal methods of the empty text, which need no sealed text; an unseal
\* method of another text is given the text of the seal method that returned
\* last
NextSodium ==
    \/ \E message \in Strings(MaxLen) : \E pub \in KeyPairs :
          /\ call = NoCall
          /\ Suspended = << >> \/ MayOverlap(message)
          /\ SealMessageCall(message, pub)
    \/ \E how \in Hows : \E pub \in KeyPairs : \E priv \in KeyPairs :
          /\ Suspended = << >> \/ (how = "empty" /\ MayOverlap(<< >>))
          /\ UnsealMessageCall(how, pub, priv)
    \/ \E message \in Strings(MaxLen) : \E pub \in KeyPairs : \E priv \in KeyPairs :
          /\ call = NoCall
          /\ Suspended = << >> \/ MayOverlap(message)
          /\ SealMessageAuthenticatedCall(message, pub, priv)
    \/ \E how \in Hows : \E pub \in KeyPairs : \E priv \in KeyPairs :
          /\ Suspended = << >> \/ (how = "empty" /\ MayOverlap(<< >>))
          /\ UnsealMessageAuthenticatedCall(how, pub, priv)
    \/ SodiumReady
    \/ LoadIfNeededResumes
    \/ \E e \in Ephemerals : \E n \in Nonces : \E k \in KeyPairs : MethodResumes(e, n, k)

SpecSodium == Init /\ [][NextSodium]_vars

\* the strings of at most n code units without a surrogate outside a pair
WellFormedStrings(n) == {u \in Strings(n) : WellFormed(u)}

\* calls of Sodium that overlap: at most MaxPending methods await at a time
NextLoad ==
    \/ Len(Suspended) < MaxPending /\ LoadIfNeededCall
    \/ Len(Suspended) < MaxPending /\ GetBoxPublicKeyBytesCall
    \/ Len(Suspended) < MaxPending /\ GetBoxPrivateKeyBytesCall
    \/ Len(Suspended) < MaxPending /\ GetBoxNonceBytesCall
    \/ Len(Suspended) < MaxPending /\ GetBoxEncryptedPrivateKeyBytesCall
    \/ Len(Suspended) < MaxPending /\ BoxKeyPairCall
    \/ Len(Suspended) < MaxPending /\ SignKeyPairCall
    \/ \E message \in WellFormedStrings(MaxLen) : \E priv \in KeyPairs :
          Suspended = << >> /\ call.fn \notin {"signMessage", "verifySignature"}
          /\ SignMessageCall(message, priv)
    \/ /\ Suspended = << >>
       /\ call.fn = "signMessage"
       /\ \E how \in Hows : \E pub \in KeyPairs : \E message \in {call.message, << 97 >>} :
             VerifySignatureCall(how, message, pub)
    \/ SodiumReady
    \/ LoadIfNeededResumes
    \/ \E e \in Ephemerals : \E n \in Nonces : \E k \in KeyPairs : MethodResumes(e, n, k)
    \/ GetBoxEncryptedPrivateKeyBytesResumes

SpecLoad == Init /\ [][NextLoad]_vars

NextMembers ==
    \/ /\ call = NoCall /\ Suspended = << >> /\ sessionWait = << >>
       /\ \E fn \in DecryptFns : \E data \in Batches(MaxBatch) : \E keychain \in BOOLEAN :
             \E groups \in GroupLists :
                DecryptMembersCall(fn, data, keychain, groups)
    \/ /\ call = NoCall /\ Suspended = << >> /\ sessionWait = << >>
       /\ \E groupId \in GroupIds : \E waitingList \in BOOLEAN :
             LoadMembersCall(groupId, waitingList)
    \/ \E i \in DOMAIN sessionWait : \E data \in Responses(MaxBatch) :
          MembersAnswered(i, data)
    \/ \E i \in DOMAIN sessionWait : MembersRequestFailed(i)
    \/ \E keychain \in BOOLEAN : \E groups \in GroupLists :
          LoadMembersResumes(keychain, groups)
    \/ LoadMembersReturns
    \/ \E i \in DOMAIN sessionWait : KeychainItemDecrypted(i)
    \/ jobs # << >> /\ Len(Suspended) < MaxPending /\ LoadIfNeededCall
    \/ SodiumReady
    \/ LoadIfNeededResumes
    \/ \E e \in Ephemerals : \E n \in Nonces : \E k \in KeyPairs : MethodResumes(e, n, k)
    \/ DecryptResumes

SpecMembers == Init /\ [][NextMembers]_vars

----------------------------------------------------------------------------
(* ChoicesFilter.doesMatch *)

\* ChoicesFilterMode
Modes == {"Or", "And"}

\* the ids of the choices of a definition
ChoiceIds == {"a", "b", "c"}

\* the lists of at most n ids, with repetitions
IdLists(n) == UNION {[1..k -> ChoiceIds] : k \in 0..n}

\* a test that looks at the first value only
Includes_First(ids, id) == ids # << >> /\ ids[1] = id

\* ids.includes(id)
Includes(ids, id) == \E i \in DOMAIN ids : ids[i] = id

\* for (const id of this.choiceIds) { ... } return this.mode === And
RECURSIVE MatchLoop(_, _, _)
MatchLoop(choiceIds, ids, mode) ==
    IF choiceIds = << >> THEN mode = "And"
    ELSE IF Includes(ids, Head(choiceIds))
         THEN IF mode = "Or" THEN TRUE ELSE MatchLoop(Tail(choiceIds), ids, mode)
         ELSE IF mode = "And" THEN FALSE ELSE MatchLoop(Tail(choiceIds), ids, mode)

\* doesMatch(object), with ids = this.definition.getValue(object)
DoesMatch(choiceIds, ids, mode) ==
    IF Len(choiceIds) = 0 THEN TRUE ELSE MatchLoop(choiceIds, ids, mode)

\* one call of doesMatch on a filter and the values of an object
DoesMatchCall(choiceIds, ids, mode) ==
    /\ call = NoCall
    /\ call' = [fn |-> "doesMatch", choiceIds |-> choiceIds, ids |-> ids, mode |-> mode]
    /\ ret' = Ok(DoesMatch(choiceIds, ids, mode))
    /\ UNCHANGED << mgrVars, dbVars, idbVars, net, srvVal, calls, histVars, last,
                    diskVersion, objectStores, srvOrders, loaded, sodiumReady, readyWait,
                    jobs, sessionWait, listening >>

NextFilter ==
    \E choiceIds \in IdLists(MaxChoices) : \E ids \in IdLists(MaxChoices) : \E mode \in Modes :
       DoesMatchCall(choiceIds, ids, mode)

SpecFilter == Init /\ [][NextFilter]_vars

----------------------------------------------------------------------------
(* Properties *)

Store(stream) == IF stream = "orders" THEN orders ELSE tickets
Cursor(stream) == IF stream = "orders" THEN lastFetchedOrder ELSE lastFetchedTicket

\* the page loops of a stream that are running: each waits for its cursor
\* read or for a page
LoopsActive(stream) ==
    Cardinality({i \in DOMAIN waiting :
                    waiting[i].op = "readSetting" /\ waiting[i].stream = stream})
    + Cardinality({i \in DOMAIN txq : txq[i].op = "readSetting" /\ txq[i].stream = stream})
    + Cardinality({i \in DOMAIN net : net[i].method = "GET" /\ net[i].stream = stream})

PatchRequests == {i \in DOMAIN net : net[i].method = "PATCH"}

NoEntry(store, secret) == \A p \in store : p.secret # secret
TicketOf(store, secret) == {t \in store : t.secret = secret}

\* the step aborted the transaction of a store method awaited by cont
AbortedWrite(cont) ==
    /\ last'.ev = "transactionAborted"
    /\ \E i \in DOMAIN txq : txq[i].cont = cont /\ txq' = Remove(txq, i)

FlushEvents ==
    {"flushStarted", "flushSkipped", "flushSent", "flushEmpty", "flushReadFailed",
     "patchAnswered", "patchFailed", "flushStored", "flushStoreFailed"}

\* C1: whenever the cursor of a stream, in memory or persisted, is the key of
\* the last item of a fetched page, every item of that page is in the store
C1_CursorNeverPastUncommittedPage ==
    \A page \in fetched :
        LET c == CursorOf(page.stream, Last(page.items)) IN
        (Cursor(page.stream) = c \/ settings[SettingKey(page.stream)] = c)
            => Range(page.items) \subseteq Store(page.stream)

\* C2: a queued patch whose key leaves the outbox has been part of a PATCH
\* request that the server answered for its key
C2_PatchRemovedOnlyAfterDelivery ==
    [][\A p \in ticketPatches :
          NoEntry(ticketPatches', p.secret) => p \in delivered']_vars

\* a call of addTicketPatch for the secret has not stored its patch yet
AddPending(s) ==
    \E i \in DOMAIN (waiting \o txq) :
       /\ (waiting \o txq)[i].op = "storeTicketPatches"
       /\ s \in SecretsOf((waiting \o txq)[i].items)

\* C3: the outbox holds at most one patch per secret, and once the calls of
\* addTicketPatch for a secret have stored their patches, with no
\* acknowledgement of the secret and no lost write since, the patch of the
\* secret in the outbox is the one of the call made last
C3_OnePatchPerSecretLatestWins ==
    /\ \A p, q \in ticketPatches : p.secret = q.secret => p = q
    /\ \A s \in Secrets :
          (lastEnq[s] # 0 /\ ~AddPending(s))
              => [secret |-> s, val |-> lastEnq[s]] \in ticketPatches

\* one record per secret, whatever the calls: put replaces the record of the key
OnePatchPerSecret == \A p, q \in ticketPatches : p.secret = q.secret => p = q

\* the patches are stored in the order in which their transactions were
\* created: the one that commits is the oldest of the queue
PatchesStoredInQueueOrder ==
    [][last'.ev = "patchStored" =>
          \E i \in DOMAIN txq :
             /\ txq[i].op = "storeTicketPatches"
             /\ txq[i].items = last'.items
             /\ \A j \in 1..(i - 1) : txq[j].op # "storeTicketPatches"]_vars

\* C4: at most one ticket PATCH request is outstanding
C4_AtMostOnePatchRequest == Cardinality(PatchRequests) <= 1

\* trySavePatches was called while a flush had its request on the wire
C4_Witness == last.ev = "flushSkipped" /\ PatchRequests # {}

\* C5: a PATCH request that fails with a network error makes trySavePatches
\* resolve, and no step of that flush (its start, the sending of the outbox,
\* the failure) changes the tickets or the outbox
C5_NetworkErrorSwallowed ==
    [][/\ (last'.ev = "patchFailed" /\ last'.err = "network")
          => /\ last'.outcome = "resolved"
             /\ tickets' = tickets
             /\ ticketPatches' = ticketPatches
       /\ last'.ev \in {"flushStarted", "flushSent"}
          => tickets' = tickets /\ ticketPatches' = ticketPatches]_vars

C5_Witness ==
    /\ last.ev = "patchFailed" /\ last.err = "network" /\ last.outcome = "resolved"
    /\ Cardinality(ticketPatches) = 2

\* C6: a PATCH request that fails with another error makes trySavePatches
\* reject and leaves the outbox as it is
C6_OtherErrorPropagates ==
    [][(last'.ev = "patchFailed" /\ last'.err = "other")
          => /\ last'.outcome = "rejected"
             /\ ticketPatches' = ticketPatches]_vars

C6_Witness ==
    /\ last.ev = "patchFailed" /\ last.err = "other" /\ last.outcome = "rejected"
    /\ ticketPatches # {}

\* the response was applied by the step: its tickets are stored, their patches
\* are gone, the other patches are as before
ResponseApplied(response) ==
    /\ \A i \in DOMAIN response : response[i] \in tickets'
    /\ \A i \in DOMAIN response : NoEntry(ticketPatches', response[i].secret)
    /\ \A p \in ticketPatches :
          p.secret \notin SecretsOf(response) => p \in ticketPatches'
    /\ \A p \in ticketPatches' : p \in ticketPatches

\* C7 as stated: when a flush whose PATCH succeeded ends, its response is applied
C7_FlushAppliesResponse ==
    [][last'.ev \in {"flushStored", "flushStoreFailed"}
          => ResponseApplied(last'.items)]_vars

\* C7 amended: when a flush whose PATCH succeeded ends, its response is applied
\* if the store write committed, and both collections are as before if it failed;
\* trySavePatches resolves in both cases; when the transaction of the store
\* write aborts without an error event both collections are as before and
\* trySavePatches stays pending
C7_FlushAppliesStoredResponse ==
    [][/\ last'.ev = "flushStored"
          => ResponseApplied(last'.items) /\ last'.outcome = "resolved"
       /\ last'.ev = "flushStoreFailed"
          => /\ tickets' = tickets /\ ticketPatches' = ticketPatches
             /\ last'.outcome = "resolved"
       /\ AbortedWrite("flush")
          => /\ tickets' = tickets /\ ticketPatches' = ticketPatches
             /\ last'.outcome = "pending"
             /\ savingTicketPatches' = savingTicketPatches]_vars

\* a response for A was stored while a patch for B stayed queued
C7_Witness ==
    /\ last.ev = "flushStored"
    /\ SecretsOf(last.items) = {"A"}
    /\ \E p \in ticketPatches : p.secret = "B"

\* C8 as stated: a key whose PATCH succeeded has no queue entry once the flush
\* has ended, and later flushes keep it so and leave the tickets as they are
C8_FlushedKeyStaysEmpty ==
    [][/\ \A s \in answered' : NoEntry(ticketPatches', s)
       /\ (last'.ev \in FlushEvents /\ answered # {} /\ answered \subseteq answered')
          => tickets' = tickets]_vars

\* C8 amended: a key whose PATCH succeeded and whose response was stored has no
\* queue entry, and later flushes keep it so and leave the ticket of that key
\* as it is
C8_StoredKeyStaysEmpty ==
    [][/\ \A s \in acked' : NoEntry(ticketPatches', s)
       /\ last'.ev \in FlushEvents
          => \A s \in acked \cap acked' : TicketOf(tickets', s) = TicketOf(tickets, s)]_vars

\* a further flush has run after the flush of a key and found its entry gone
C8_Witness ==
    /\ last.ev \in {"flushEmpty", "flushSent"}
    /\ acked # {}
    /\ \A s \in acked : TicketOf(tickets, s) # {}

\* C9: no two page loops of one stream run at the same time
C9_RefreshSerialized == \A s \in Streams : LoopsActive(s) <= 1

\* C10: when no refresh of a stream is running, its guard is clear
C10_GuardClearedAfterRefresh == \A s \in Streams : LoopsActive(s) = 0 => ~IsLoading(s)

----------------------------------------------------------------------------
(* Properties of the refresh over restarts *)

\* the transactions of a stream, waiting for the connection or created, whose
\* operation is in ops
NumWrites(q, stream, ops) ==
    Cardinality({i \in DOMAIN q : q[i].stream = stream /\ q[i].op \in ops})

PageStoreOps == {"storeOrders", "storeTickets"}
CursorStoreOps == {"storeSetting"}

\* the requests of the refresh of a stream that are on the wire
Fetching(stream) == {i \in DOMAIN net : net[i].method = "GET" /\ net[i].stream = stream}

\* C11: while a page request of a stream is on the wire, no store write and no
\* cursor write of an earlier page of that stream is still pending
C11_NextFetchAfterCommit ==
    \A s \in Streams :
        Fetching(s) # {} =>
            NumWrites(waiting \o txq, s, PageStoreOps \cup CursorStoreOps) = 0

\* C12: the updatedAt of the cursor of a stream, in memory and persisted,
\* never decreases
C12_CursorMonotonic ==
    [][\A s \in Streams :
          /\ (Cursor(s).kind = "set" /\ Cursor(s)'.kind = "set")
                => Cursor(s)'.updatedAt >= Cursor(s).updatedAt
          /\ (settings[SettingKey(s)].kind = "set" /\ settings'[SettingKey(s)].kind = "set")
                => settings'[SettingKey(s)].updatedAt >= settings[SettingKey(s)].updatedAt]_vars

\* C13: when a refresh without reset has read the persisted cursor c, its
\* first request carries the filter of c (updatedSince and tie-break), and a
\* page that answers a filtered request has no item older than the filter
C13_ResumeFromPersistedCursor ==
    [][/\ \A i \in DOMAIN txq :
            LET c == settings[SettingKey(txq[i].stream)] IN
            (/\ last'.ev = "cursorRead" /\ last'.err = "none"
             /\ txq[i].op = "readSetting" /\ ~txq[i].reset
             /\ txq' = Remove(txq, i)
             /\ c.kind = "set")
               => /\ Len(net') = Len(net) + 1
                  /\ Last(net') = [method |-> "GET", stream |-> txq[i].stream,
                                    query |-> [kind |-> "after", updatedSince |-> c.updatedAt,
                                               tie |-> c.tie],
                                    body |-> NoBody]
       /\ \A i \in DOMAIN net :
            (/\ last'.ev = "page"
             /\ net[i].method = "GET" /\ net[i].query.kind = "after"
             /\ (net' = Remove(net, i) \/ (Len(net') = Len(net) /\ net'[i] # net[i])))
               => \A k \in DOMAIN last'.items :
                     last'.items[k].updatedAt >= net[i].query.updatedSince]_vars

\* a fresh process has read the cursor the last process persisted and asks for
\* the items after it
C13_Witness ==
    /\ last.ev = "cursorRead" /\ last.err = "none"
    /\ \E s \in Streams :
          /\ settings[SettingKey(s)].kind = "set"
          /\ Fetching(s) # {}
          /\ \A i \in Fetching(s) : net[i].query.kind = "after"

\* C14: when the page whose next is null arrives, the refresh sends no further
\* request and the guard of its stream is clear
C14_StopsAtNullNext ==
    [][\A i \in DOMAIN net :
          (/\ last'.ev \in {"page", "emptyPage"}
           /\ net[i].method = "GET"
           /\ net' = Remove(net, i))
             => ~(IF net[i].stream = "orders" THEN isLoadingOrders' ELSE isLoadingTickets')]_vars

\* what a step adds to the pending writes of a stream
Added(stream, ops) ==
    NumWrites(waiting' \o txq', stream, ops) - NumWrites(waiting \o txq, stream, ops)

\* a non-empty page starts exactly one store write and one cursor write for
\* its stream and sets the cursor to the key of its last item; an empty page
\* starts none and leaves the cursor; no other step starts such writes
PageStartsOneWriteOneAdvance ==
    [][/\ last'.ev = "page" =>
            \E s \in Streams :
                /\ Added(s, PageStoreOps) = 1 /\ Added(s, CursorStoreOps) = 1
                /\ Cursor(s)'.kind = "set"
                /\ Cursor(s)'.updatedAt = Last(last'.items).updatedAt
                /\ Cursor(s)'.tie = TieOf(s, Last(last'.items))
                /\ \A t \in Streams \ {s} :
                      /\ Added(t, PageStoreOps) = 0 /\ Added(t, CursorStoreOps) = 0
                      /\ Cursor(t)' = Cursor(t)
       /\ last'.ev = "emptyPage" =>
            \A s \in Streams :
                /\ Added(s, PageStoreOps) = 0 /\ Added(s, CursorStoreOps) = 0
                /\ Cursor(s)' = Cursor(s)
       /\ last'.ev # "page" =>
            \A s \in Streams :
                Added(s, PageStoreOps) <= 0 /\ Added(s, CursorStoreOps) <= 0]_vars

\* the step ends the store write of a page of a refresh without a commit: its
\* transaction fails or aborts, or the open of the database was rejected
PageWriteLost ==
    /\ last'.ev \in {"writeFailed", "transactionAborted"}
    /\ \E i \in DOMAIN txq :
          /\ txq' = Remove(txq, i)
          /\ \/ txq[i].op = "storeOrders" /\ txq[i].cont = "none"
             \/ txq[i].op = "storeTickets" /\ txq[i].cont = "refresh"

\* C15: a non-empty page sets the cursor to the key of its last item and
\* starts one store write, which commits; an empty page starts none and
\* leaves the cursor; the cursor a page has set stays until the next page:
\* but for a new process, only the load of the persisted cursor into a cursor
\* that is still undefined changes it otherwise
C15_OneCommitOneAdvancePerPage ==
    [][/\ last'.ev = "page" =>
            \E s \in Streams :
                /\ Added(s, PageStoreOps) = 1
                /\ Cursor(s)' = CursorOf(s, Last(last'.items))
                /\ \A t \in Streams \ {s} :
                      Added(t, PageStoreOps) = 0 /\ Cursor(t)' = Cursor(t)
       /\ last'.ev = "emptyPage" =>
            \A s \in Streams : Added(s, PageStoreOps) = 0 /\ Cursor(s)' = Cursor(s)
       /\ ~PageWriteLost
       /\ last'.ev \notin {"page", "restart"} =>
            \A s \in Streams :
                \/ Cursor(s)' = Cursor(s)
                \/ last'.ev = "cursorRead" /\ Cursor(s) = Undefined]_vars

\* C16: with the open of the database rejected, a cursor read that fails makes
\* the refresh ask for the stream from its origin, every page but the last is
\* followed by the request of the next, no step of the refresh rejects to its
\* caller, and nothing is written to the stores: no step but the failed open
\* changes them, and the failed open at most empties them
C16_StorageFallback ==
    [][/\ (last'.ev = "cursorRead" /\ last'.err = "storage")
            => /\ Len(net') = Len(net) + 1
               /\ Last(net').query = EmptyQuery
       /\ databasePromise' = "rejected"
            => /\ last'.ev # "openFailed"
                     => settings' = settings /\ orders' = orders /\ tickets' = tickets
               /\ \A k \in SettingKeys : settings'[k] \in {settings[k], Absent}
               /\ orders' \subseteq orders /\ tickets' \subseteq tickets
               /\ last'.ev \in {"refreshStarted", "cursorRead", "page", "emptyPage",
                                 "writeFailed", "openFailed"}
                     => last'.outcome # "rejected"
               /\ last'.ev \in {"page", "emptyPage"}
                     => (Len(last'.items) >= PageSize <=> Len(net') = Len(net))]_vars

\* with the open rejected, a refresh of the orders has run from the origin to
\* its last page and no cursor is persisted
C16_Witness ==
    /\ databasePromise = "rejected"
    /\ last.ev = "page"
    /\ Fetching("orders") = {}
    /\ lastFetchedOrder.kind = "set" /\ lastFetchedOrder.tie = NumOrders
    /\ \A k \in SettingKeys : settings[k] = Absent

\* C20: an open that finds no database creates exactly the four stores, empty;
\* an open that finds an older version of 1 or more leaves all four stores
\* empty; after the open the database on disk has the requested Version
C20_UpgradeCreatesOrClears ==
    [][(~database /\ database') =>
          /\ diskVersion' = Version
          /\ objectStores' = AllStores
          /\ diskVersion < Version =>
                /\ orders' = {} /\ tickets' = {} /\ ticketPatches' = {}
                /\ \A k \in SettingKeys : settings'[k] = Absent]_vars

\* the database of an older version was opened and the stores it came with
\* are empty
C20_Witness ==
    /\ last.ev = "cleared"
    /\ database /\ diskVersion = Version
    /\ orders = {} /\ tickets = {} /\ ticketPatches = {}
    /\ \A k \in SettingKeys : settings[k] = Absent
    /\ fetched = {}


----------------------------------------------------------------------------
(* Properties of Sodium *)

\* the text has a character outside the base64 alphabet
Malformed(text) == \E i \in DOMAIN text : text[i].c = "!"

\* unsealMessage is given the text sealMessage returned, with the key pair of
\* the public key it was sealed to
OpensSealed ==
    /\ call.fn = "sealMessage"
    /\ call'.fn = "unsealMessage"
    /\ call'.how = "sealed"
    /\ call'.pub = call.pub
    /\ call'.priv = call.pub

\* C18, as stated: unsealing what sealMessage returned, with the matching key
\* pair, returns the message, for every message.
C18_RoundTrip ==
    [][OpensSealed => (ret'.ok /\ ret'.val = call.message)]_vars

\* C18, amended: unsealing what sealMessage returned, with the matching key
\* pair, returns the message, for every message that is well-formed Unicode (no
\* surrogate outside a pair).
C18_RoundTripWellFormed ==
    [][(OpensSealed /\ WellFormed(call.message))
          => (ret'.ok /\ ret'.val = call.message)]_vars

\* C18: a message with a character outside the basic plane came back from
\* unsealMessage as it was sealed
C18_Witness ==
    /\ call.fn = "unsealMessage"
    /\ call.how = "sealed"
    /\ call.pub = call.priv
    /\ Len(call.message) = 2
    /\ IsHighSurrogate(call.message[1])
    /\ IsLowSurrogate(call.message[2])
    /\ ret.ok
    /\ ret.val = call.message

\* an unseal method is given what became of the text its seal method returned
Unseals ==
    \/ call.fn = "sealMessage" /\ call'.fn = "unsealMessage"
    \/ call.fn = "sealMessageAuthenticated" /\ call'.fn = "unsealMessageAuthenticated"

\* the bytes before the encrypted message: of a sealed box, of an
\* authenticated box with its nonce
MinBytes(fn) == IF fn = "unsealMessage" THEN SealBytes ELSE BoxNonceBytes + BoxMacBytes

\* the keys given to the unseal method are not those of the box: the pair of
\* the public key a sealed box was made for; the two key pairs an
\* authenticated box was made between, which share one key whichever of them
\* gives the public and whichever the private key
OtherKeys ==
    IF call'.fn = "unsealMessage"
    THEN call'.pub # call.pub \/ call'.priv # call.pub
    ELSE {call'.pub, call'.priv} # {call.pub, call.priv}

\* C19: unsealMessage and unsealMessageAuthenticated fail, and return no
\* plaintext, when the ciphertext is malformed, too short, or does not
\* authenticate under the keys.
C19_UnsealFails ==
    [][(/\ Unseals
        /\ \/ Malformed(call'.text)
           \/ NumBytes(Base64Decode(call'.text)) < MinBytes(call'.fn)
           \/ call'.how = "changed"
           \/ OtherKeys)
          => (~ret'.ok /\ ret'.val = << >>)]_vars

\* what does hold: the unseal methods fail when the ciphertext is too short or
\* does not authenticate under the keys
UnsealFailsUnauthenticated ==
    [][(/\ Unseals
        /\ \/ NumBytes(Base64Decode(call'.text)) < MinBytes(call'.fn)
           \/ call'.how = "changed"
           \/ OtherKeys)
          => (~ret'.ok /\ ret'.val = << >>)]_vars

\* an authenticated box comes back from unsealMessageAuthenticated as the
\* message it was made of, when that is well-formed
AuthenticatedRoundTrip ==
    [][(/\ Unseals
        /\ call'.fn = "unsealMessageAuthenticated"
        /\ call'.how = "sealed"
        /\ ~OtherKeys
        /\ WellFormed(call.message))
          => (ret'.ok /\ ret'.val = call.message)]_vars


----------------------------------------------------------------------------
(* Properties of MemberManager *)

\* the details an envelope gives on its own
DecryptedDetails(encryptedForOrganization) ==
    IF encryptedForOrganization = << >> THEN NoDetails
    ELSE ReadDetails(UnsealMessage(encryptedForOrganization, OrgKey, OrgKey))

\* the member an item gives on its own
MemberOf(member, withRegistrations, groups) ==
    DecryptedMember(member, DecryptedDetails(member.encryptedForOrganization),
                    withRegistrations, groups)

\* C17: with the organization's key in the keychain, both methods return one
\* member per input item, of the same id and in input order; a member has
\* details exactly when its envelope is set and unsealing, JSON parsing and
\* decoding all succeed; it is the member the item gives on its own, whatever
\* became of the other items.
C17_OneMemberPerInput ==
    (call.fn \in DecryptFns /\ call.keychain) =>
        /\ ret.ok
        /\ Len(ret.val) = Len(call.data)
        /\ \A i \in DOMAIN call.data :
              /\ ret.val[i].id = call.data[i].id
              /\ ret.val[i].details.decoded <=> (call.data[i].kind = "ok")
              /\ ret.val[i] = MemberOf(call.data[i], call.fn = "decryptMembers",
                                       call.groups)

\* C17: a batch of an envelope cut short and a good one gave a member
\* without details followed by a member with details
C17_Witness ==
    /\ call.fn = "decryptMembers"
    /\ call.keychain
    /\ Len(call.data) = 2
    /\ call.data[1].kind = "cut"
    /\ call.data[2].kind = "ok"
    /\ call.data[1].id # call.data[2].id
    /\ ret.ok
    /\ ~ret.val[1].details.decoded
    /\ ret.val[2].details = Details([firstName |-> << 97 >>])
    /\ ret.val[2].registrations = call.data[2].registrations
    /\ \A i \in DOMAIN ret.val : ret.val[i].fillGroups = << << 1, 2 >> >>

\* loadMembers has returned the members it decrypted while a loadIfNeeded the
\* application called in between still awaits sodium.ready: a method that
\* awaits the promise holds up no continuation
ReturnedWhileLoadIfNeededWaits ==
    /\ call.fn = "loadMembers" /\ ret.ok
    /\ ~sodiumReady
    /\ \E i \in DOMAIN readyWait : readyWait[i].call.fn = "loadIfNeeded"

\* decryptMembersWithoutRegistrations fills no member with groups
WithoutRegistrationsNotFilled ==
    (call.fn = "decryptMembersWithoutRegistrations" /\ ret.ok) =>
        \A i \in DOMAIN ret.val :
           ret.val[i].fillGroups = << >> /\ ret.val[i].registrations = << >>

\* loadMembers throws what its request threw, throws as decryptMembers does
\* without the item of the organization in the keychain, and else returns the
\* members decryptMembers makes of the data of the response, each filled once
\* with the groups the organization had when the response arrived
LoadMembersReturnsDecrypted ==
    call.fn = "loadMembers" =>
        \/ ret = Err("network") /\ call.data = << >>
        \/ ~call.keychain /\ ret = Err("Missing organization keychain")
        \/ /\ call.keychain
           /\ ret.ok
           /\ Len(ret.val) = Len(call.data)
           /\ \A i \in DOMAIN call.data :
                 ret.val[i] = MemberOf(call.data[i], TRUE, call.groups)

\* loadMembers was answered with two members and returned them
LoadMembersReturned ==
    /\ call.fn = "loadMembers"
    /\ ret.ok
    /\ Len(ret.val) = 2
    /\ ret.val[1].details.decoded
    /\ ret.val[1].fillGroups = << call.groups >>


----------------------------------------------------------------------------
(* Properties of getDatabase *)

\* C21: a manager opens its database at most once, so at most one open is in
\* flight; while the open is in flight the store methods that arrive wait for
\* it, behind those that wait already, and start no open; once the connection
\* is there no store method waits and none starts an open.
C21_OneOpenInFlight ==
    [][/\ opens' <= 1
       /\ (databasePromise = "pending" /\ databasePromise' = "pending")
             => /\ opens' = opens
                /\ Len(waiting') >= Len(waiting)
                /\ SubSeq(waiting', 1, Len(waiting)) = waiting
       /\ (database /\ database')
             => /\ opens' = opens
                /\ waiting' = << >>
                /\ databasePromise' = "null"]_vars

\* two store methods wait for the one open of the database
C21_Witness ==
    /\ databasePromise = "pending"
    /\ opens = 1
    /\ Len(waiting) >= 2


----------------------------------------------------------------------------
(* Properties of the cursor and of the page loop *)

\* the secondary uniqueness key of an entity
SecondaryKey(stream, item) == IF stream = "orders" THEN item.number ELSE item.secret

\* a key as it is written in a query
KeyText(key) == ToString(key)

\* the items of a stream on the server
ServerItems(stream) ==
    IF stream = "orders" THEN Range(ServerOrders) ELSE Range(ServerTickets(srvVal))

\* C22: the cursor a page sets has the secondary uniqueness key of the last
\* item of the page as its tie-break (the number of an order, the secret of a
\* ticket), and the tie-break of a filter on the wire is that key of an item
\* with the updatedAt of the filter.
C22_TieBreakIsSecondaryKey ==
    [][/\ last'.ev = "page" =>
             \A s \in Streams :
                 Added(s, PageStoreOps) = 1 =>
                     KeyText(Cursor(s)'.tie) = KeyText(SecondaryKey(s, Last(last'.items)))
       /\ \A i \in DOMAIN net' :
             (net'[i].method = "GET" /\ net'[i].query.kind = "after") =>
                 \E item \in ServerItems(net'[i].stream) :
                     /\ item.updatedAt = net'[i].query.updatedSince
                     /\ KeyText(net'[i].query.tie)
                           = KeyText(SecondaryKey(net'[i].stream, item))]_vars

\* what does hold: the tie-break of the cursor and of the filter is the number
\* of an order and the id of a ticket
TieBreakIsNumberOrId ==
    [][/\ last'.ev = "page" =>
             \A s \in Streams :
                 Added(s, PageStoreOps) = 1 =>
                     Cursor(s)'.tie = TieOf(s, Last(last'.items))
       /\ \A i \in DOMAIN net' :
             (net'[i].method = "GET" /\ net'[i].query.kind = "after") =>
                 \E item \in ServerItems(net'[i].stream) :
                     /\ item.updatedAt = net'[i].query.updatedSince
                     /\ net'[i].query.tie = TieOf(net'[i].stream, item)]_vars


----------------------------------------------------------------------------
(* Properties of the outbox under a flush *)

\* C23: when a flush ends, a patch of the outbox that was in no request the
\* server answered (it was enqueued after the flush read the outbox) is still
\* in the outbox, also when the response has a ticket of its secret.
C23_LatePatchSurvivesFlush ==
    [][last'.ev \in {"flushStored", "flushStoreFailed"} =>
          \A p \in ticketPatches : p \notin delivered => p \in ticketPatches']_vars


----------------------------------------------------------------------------
(* Properties of the guard of a refresh *)

\* C24: a refresh call that finds the guard of its stream set while a page
\* loop of that stream runs does not resolve in that step: it stays pending
\* until the loop has ended.
C24_LaterCallJoins ==
    (last.ev = "refreshJoined" /\ LoopsActive(last.stream) > 0)
        => last.outcome = "pending"


----------------------------------------------------------------------------
(* Properties of addTicketPatch and trySavePatches *)

FlushReads == {"getTicketPatches"}

\* the steps of addTicketPatch whose transaction completes or fires an error
\* event: it resolves in the step in which its patch is stored; that step
\* starts the flush, unless one is running, and the flush has sent nothing
\* yet; addTicketPatch starts no flush before the patch is stored; when the
\* store fails with an error event it rejects with the error, starts no flush
\* and stores nothing
AddSettlesWithItsTransaction ==
    [][/\ last'.ev = "addCalled" =>
             /\ last'.outcome = "pending"
             /\ savingTicketPatches' = savingTicketPatches
             /\ Added("tickets", FlushReads) = 0
             /\ net' = net
       /\ last'.ev = "patchStored" =>
             /\ last'.outcome = "resolved"
             /\ Range(last'.items) \subseteq ticketPatches'
             /\ savingTicketPatches'
             /\ Added("tickets", FlushReads) = (IF savingTicketPatches THEN 0 ELSE 1)
             /\ net' = net
       /\ last'.ev = "patchStoreFailed" =>
             /\ last'.outcome = "rejected" /\ last'.err = "storage"
             /\ savingTicketPatches' = savingTicketPatches
             /\ Added("tickets", FlushReads) = 0
             /\ ticketPatches' = ticketPatches
             /\ net' = net]_vars

\* the patch of addTicketPatch was not stored: its transaction fired an error
\* event, or aborted without one
AddNotStored == last'.ev = "patchStoreFailed" \/ AbortedWrite("add")

\* C25: when storing the patch of addTicketPatch fails, no flush is triggered,
\* nothing is stored and the error reaches the caller: addTicketPatch rejects.
C25_AddResolvesWhenStored ==
    [][AddNotStored =>
          /\ savingTicketPatches' = savingTicketPatches
          /\ Added("tickets", FlushReads) = 0
          /\ ticketPatches' = ticketPatches
          /\ net' = net
          /\ last'.outcome = "rejected"]_vars

\* when the transaction of the patch aborts without an error event no flush
\* is triggered and nothing is stored, and addTicketPatch stays pending
AddPendingWhenAborted ==
    [][AbortedWrite("add") =>
          /\ savingTicketPatches' = savingTicketPatches
          /\ Added("tickets", FlushReads) = 0
          /\ ticketPatches' = ticketPatches
          /\ net' = net
          /\ last'.outcome = "pending"]_vars

\* addTicketPatch has resolved with its patch stored, and the flush it started
\* has not read the outbox yet
AddResolvedBeforeFlush ==
    /\ last.ev = "patchStored" /\ last.outcome = "resolved"
    /\ Range(last.items) \subseteq ticketPatches
    /\ savingTicketPatches
    /\ NumWrites(txq, "tickets", FlushReads) = 1
    /\ net = << >>

\* C26: a PATCH request is sent only by a flush that has read the outbox, one
\* per read, and its body is the outbox as it was read; a flush that reads an
\* empty outbox sends nothing and ends.
C26_OnePatchRequestPerFlush ==
    [][/\ Cardinality(PatchRequests') > Cardinality(PatchRequests) => last'.ev = "flushSent"
       /\ last'.ev = "flushSent" =>
             /\ ticketPatches # {}
             /\ net' = Append(net, [method |-> "PATCH", stream |-> "tickets",
                                    query |-> NoQuery, body |-> ticketPatches])
             /\ Added("tickets", FlushReads) = -1
       /\ last'.ev = "flushEmpty" =>
             /\ ticketPatches = {}
             /\ net' = net
             /\ ~savingTicketPatches'
             /\ Added("tickets", FlushReads) = -1]_vars

\* a flush has sent an outbox of two patches
C26_Witness ==
    /\ last.ev = "flushSent"
    /\ \E i \in PatchRequests : net[i].body = ticketPatches /\ Cardinality(net[i].body) = 2


----------------------------------------------------------------------------
(* Properties of the pages of a refresh *)

\* the step handled a non-empty page of the stream
PageOf(stream) == last'.ev = "page" /\ Added(stream, PageStoreOps) = 1

\* C27: a non-empty page of orders is sent to the listeners in the step that
\* receives it, and that step asks for the next page when there is one,
\* whatever becomes of the store write; a store write that fails, with an
\* error event or by an abort without one, rejects nothing, leaves the
\* requests of the loop on the wire, and leaves the guards and the cursors as
\* they are.
C27_PageWriteFailureNotFatal ==
    [][/\ PageOf("orders") =>
             /\ last'.sent = << last'.items >>
             /\ last'.outcome # "rejected"
             /\ Len(last'.items) >= PageSize => Len(net') = Len(net)
       /\ last'.ev \in {"writeFailed", "transactionAborted"} =>
             /\ last'.outcome # "rejected"
             /\ net' = net
             /\ isLoadingOrders' = isLoadingOrders /\ isLoadingTickets' = isLoadingTickets
             /\ lastFetchedOrder' = lastFetchedOrder
             /\ lastFetchedTicket' = lastFetchedTicket]_vars

\* the store write of the first page of orders has failed while the request of
\* the second page is on the wire
C27_Witness ==
    /\ last.ev = "writeFailed"
    /\ last.items # NoItems
    /\ [stream |-> "orders", items |-> last.items] \in fetched
    /\ orders = {}
    /\ Fetching("orders") # {}
    /\ isLoadingOrders

\* C28: for both streams, the step that receives a non-empty page sends that
\* page to the listeners, once, and no other step sends anything.
C28_EveryPagePublishedOnce ==
    [][/\ last'.ev = "page" => last'.sent = << last'.items >>
       /\ last'.ev # "page" => last'.sent = << >>]_vars

\* what does hold: the pages of the orders are sent once each, in the step
\* that receives them, and no other step sends anything
OrdersPagesPublishedOnce ==
    [][/\ PageOf("orders") => last'.sent = << last'.items >>
       /\ ~PageOf("orders") => last'.sent = << >>]_vars


----------------------------------------------------------------------------
(* Properties of reset *)

OrderIds(store) == {r.id : r \in store}
TicketSecrets(store) == {r.secret : r \in store}

\* a refresh with reset waits for the open of the database: its cursor read
\* comes before its first request
ResetAwaitsOpen ==
    \E i \in DOMAIN waiting : waiting[i].op = "readSetting" /\ waiting[i].reset

\* C29: the call of a refresh with reset and its cursor read leave the four
\* stores as they are, and the first request has no filter, whatever the
\* cursors in memory and in the settings are; the call for the orders sends
\* that request itself.  No step of a refresh removes an order, a ticket or a
\* persisted cursor.  The handlers of the open of the database (the upgrade
\* that clears the stores, the failed open that deletes the database) belong
\* to getDatabase, which the first store access of a process starts with or
\* without reset, and are no step of the refresh.
C29_ResetFromOriginKeepsStores ==
    [][/\ (last'.reset /\ last'.ev \in {"refreshStarted", "cursorRead"}) =>
             /\ orders' = orders /\ tickets' = tickets
             /\ ticketPatches' = ticketPatches /\ settings' = settings
             /\ Len(net') > Len(net) =>
                   Last(net') = [method |-> "GET", stream |-> last'.stream,
                                 query |-> EmptyQuery, body |-> NoBody]
             /\ (last'.ev = "cursorRead" \/ last'.stream = "orders")
                   => Len(net') = Len(net) + 1
       /\ last'.ev \notin {"openFailed", "cleared"} =>
             /\ OrderIds(orders) \subseteq OrderIds(orders')
             /\ TicketSecrets(tickets) \subseteq TicketSecrets(tickets')
             /\ \A k \in SettingKeys : settings[k] # Absent => settings'[k] # Absent]_vars

\* what the open of the database does to the stores is the open's own: when
\* it fails, the stores are left as they are or, in a development build, the
\* whole database is deleted
OpenFailedKeepsOrDeletes ==
    [][last'.ev = "openFailed" =>
          \/ /\ orders' = orders /\ tickets' = tickets
             /\ ticketPatches' = ticketPatches /\ settings' = settings
             /\ diskVersion' = diskVersion
          \/ /\ orders' = {} /\ tickets' = {} /\ ticketPatches' = {}
             /\ \A k \in SettingKeys : settings'[k] = Absent
             /\ diskVersion' = 0 /\ objectStores' = {}]_vars

\* a refresh of the orders with reset has sent its first request, without
\* filter, while the cursor in memory and the persisted one are set and the
\* orders of an earlier refresh are stored
C29_Witness ==
    /\ last.ev = "refreshStarted" /\ last.reset /\ last.stream = "orders"
    /\ lastFetchedOrder.kind = "set"
    /\ settings[SettingKey("orders")].kind = "set"
    /\ orders # {}
    /\ net # << >> /\ Last(net).query = EmptyQuery /\ Last(net).stream = "orders"


CursorReads == {"readSetting"}

\* C30: over refresh calls without reset, the persisted cursor of a stream is
\* read at most once: at most one read of it is pending while the cursor in
\* memory is undefined, and none once the cursor in memory is set or null.
C30_CursorReadOnce ==
    \A s \in Streams :
        NumWrites(waiting \o txq, s, CursorReads)
            <= (IF Cursor(s) = Undefined THEN 1 ELSE 0)

----------------------------------------------------------------------------
(* Properties of a failed page request *)

\* a refresh of the stream without reset is called and starts: it reads the
\* persisted cursor when the one in memory is undefined, else it sends the
\* request of the items after the cursor in memory
StartsFromCursor(s) ==
    /\ last'.ev = "refreshStarted"
    /\ \/ Cursor(s) = Undefined /\ Added(s, CursorReads) = 1 /\ net' = net
       \/ /\ Cursor(s) # Undefined
          /\ net' = Append(net, Get(s, FirstQuery(FALSE, Cursor(s))))

\* C31: the step in which a page request of a refresh fails rejects the call
\* with the error of the request and sends no request; it leaves the stores,
\* the pending writes, the persisted cursors and both cursors in memory as
\* they are.  The request a page step sends for the next page carries the key
\* the same step sets the cursor to, so the cursor a failure of that request
\* leaves is the key of the last item of the last page processed.  The
\* refresh of the same stream that is called next, without reset, starts and
\* asks from that cursor.
C31_PageFailureStopsRefresh ==
    [][/\ \A i \in DOMAIN net : \A s \in Streams :
             (/\ last'.ev = "refreshFailed"
              /\ net[i].method = "GET" /\ net[i].stream = s
              /\ net' = Remove(net, i)) =>
                /\ last'.outcome = "rejected" /\ last'.err = "request"
                /\ Cardinality(Fetching(s)') = Cardinality(Fetching(s)) - 1
                /\ orders' = orders /\ tickets' = tickets
                /\ ticketPatches' = ticketPatches /\ settings' = settings
                /\ waiting' = waiting /\ txq' = txq
                /\ lastFetchedOrder' = lastFetchedOrder
                /\ lastFetchedTicket' = lastFetchedTicket
       /\ \A i \in DOMAIN net : \A s \in Streams :
             (/\ last'.ev = "page"
              /\ net[i].method = "GET" /\ net[i].stream = s
              /\ Len(net') = Len(net) /\ net'[i] # net[i]) =>
                net'[i] = Get(s, FirstQuery(FALSE, Cursor(s)'))
       /\ \A s \in Streams :
             (/\ last.ev = "refreshFailed" /\ last.stream = s
              /\ last'.ev \in {"refreshStarted", "refreshJoined"}
              /\ last'.stream = s /\ ~last'.reset) => StartsFromCursor(s)]_vars

\* the part of C31 that holds for the orders: a refresh of the orders called
\* without reset right after a page request of the orders failed starts and
\* asks from the cursor the failure left
OrdersResumeAfterFailure ==
    [][(/\ last.ev = "refreshFailed" /\ last.stream = "orders"
        /\ last'.ev \in {"refreshStarted", "refreshJoined"}
        /\ last'.stream = "orders" /\ ~last'.reset) => StartsFromCursor("orders")]_vars

\* the request of the second page of orders has failed after the first page
\* was stored, and the refresh called next asks for the orders after the last
\* order of that page
OrdersResumedAfterFailure ==
    /\ last.ev = "refreshStarted" /\ last.stream = "orders" /\ ~last.reset
    /\ fetched = {[stream |-> "orders", items |-> Prefix(ServerOrders, PageSize)]}
    /\ OrderIds(orders) = 1..PageSize
    /\ lastFetchedOrder = CursorOf("orders", ServerOrders[PageSize])
    /\ net = << Get("orders", FirstQuery(FALSE, lastFetchedOrder)) >>

----------------------------------------------------------------------------
(* Properties of storeTickets *)

\* the step ended the transaction of a storeTickets with an error event
StoreTicketsFailed ==
    /\ last'.ev \in {"flushStoreFailed", "writeFailed"}
    /\ NumWrites(txq', "tickets", {"storeTickets"})
          = NumWrites(txq, "tickets", {"storeTickets"}) - 1

\* the step aborted the transaction of a storeTickets without an error event
StoreTicketsAborted ==
    /\ last'.ev = "transactionAborted"
    /\ NumWrites(txq', "tickets", {"storeTickets"})
          = NumWrites(txq, "tickets", {"storeTickets"}) - 1

\* a storeTickets that commits writes every ticket of its batch, deletes the
\* patch of each of them and touches no other ticket and no other patch; one
\* whose transaction fires an error event rejects and leaves both collections
\* as they were; one whose transaction aborts without an error event leaves
\* both collections as they were and rejects nothing; and no step writes a
\* ticket without deleting its patch, or deletes a patch without writing the
\* ticket of its secret
StoreTicketsAllOrNothing ==
    [][/\ last'.ev \in {"flushStored", "pageStored"} =>
             /\ ResponseApplied(last'.items)
             /\ \A t \in tickets : t.secret \notin SecretsOf(last'.items) => t \in tickets'
       /\ StoreTicketsFailed =>
             /\ tickets' = tickets /\ ticketPatches' = ticketPatches
             /\ last'.err = "storage"
       /\ StoreTicketsAborted =>
             /\ tickets' = tickets /\ ticketPatches' = ticketPatches
             /\ last'.err = "none" /\ last'.outcome # "rejected"
       /\ \A s \in Secrets :
             (TicketOf(tickets', s) # TicketOf(tickets, s)) => NoEntry(ticketPatches', s)
       /\ \A s \in Secrets :
             (~NoEntry(ticketPatches, s) /\ NoEntry(ticketPatches', s))
                => TicketOf(tickets', s) # {} /\ last'.ev \in {"flushStored", "pageStored"}]_vars

\* C32: a storeTickets whose transaction fails, with an error event or by an
\* abort without one, leaves both collections exactly as before and the call
\* rejects with the storage error.
C32_StoreTicketsAtomic ==
    [][(StoreTicketsFailed \/ StoreTicketsAborted) =>
          /\ tickets' = tickets /\ ticketPatches' = ticketPatches
          /\ last'.err = "storage"]_vars

\* with the connection open, the storeTickets of a response has failed: the
\* patch of the returned ticket is still queued and the ticket is not stored
StoreTicketsFailedKeepsPatch ==
    /\ last.ev = "flushStoreFailed"
    /\ database
    /\ last.items # << >>
    /\ \A i \in DOMAIN last.items :
          /\ ~NoEntry(ticketPatches, last.items[i].secret)
          /\ TicketOf(tickets, last.items[i].secret) = {}

----------------------------------------------------------------------------
(* Properties of the reads of a ticket *)

\* the patch queued for a secret
QueuedPatch(secret) == {p \in ticketPatches : p.secret = secret}

\* C33: a read of a secret whose ticket is stored resolves with that ticket,
\* carrying the value of the queued patch of the secret when there is one and
\* the read asks for patches, and as stored otherwise; a read of a secret
\* whose ticket is not stored resolves with undefined, whatever is queued;
\* and no step of addTicketPatch changes the tickets.
C33_ReadAppliesQueuedPatch ==
    [][/\ \A i \in DOMAIN txq :
             (last'.ev = "ticketRead" /\ txq[i].op = "getTicket" /\ txq' = Remove(txq, i)) =>
                LET secret == txq[i].items[1].secret
                    withPatches == txq[i].items[1].withPatches
                IN  /\ last'.outcome = "resolved"
                    /\ TicketOf(tickets, secret) = {} => last'.items = << UndefinedTicket >>
                    /\ \A t \in TicketOf(tickets, secret) :
                          /\ (withPatches /\ QueuedPatch(secret) # {}) =>
                                \A p \in QueuedPatch(secret) :
                                    /\ last'.items[1].val = p.val
                                    /\ last'.items[1].secret = t.secret
                                    /\ last'.items[1].id = t.id
                                    /\ last'.items[1].updatedAt = t.updatedAt
                          /\ (~withPatches \/ QueuedPatch(secret) = {}) =>
                                last'.items = << t >>
       /\ last'.ev \in {"addCalled", "patchStored", "patchStoreFailed"} => tickets' = tickets]_vars

\* ticket A is stored with the value of an acknowledged patch, a later patch
\* for A with another value is queued, and a read of A has resolved with the
\* value of the queued patch
C33_Witness ==
    /\ last.ev = "ticketRead"
    /\ \E t \in tickets : \E p \in ticketPatches :
          /\ t.secret = "A" /\ p.secret = "A" /\ t.val # p.val
          /\ last.items = << [t EXCEPT !.val = p.val] >>

----------------------------------------------------------------------------
(* Properties of the outbox under the refresh of the tickets *)

\* C34: the step that commits a page of tickets of a refresh leaves the
\* outbox as it is.
C34_PageCommitKeepsPatches ==
    [][last'.ev = "pageStored" => ticketPatches' = ticketPatches]_vars

----------------------------------------------------------------------------
(* Properties of the guard of the flush *)

\* a trySavePatches is under way: it waits for the outbox, for the answer to
\* its request or for the write of the response
FlushActive ==
    \/ \E i \in DOMAIN waiting : waiting[i].cont = "flush"
    \/ \E i \in DOMAIN txq : txq[i].cont = "flush"
    \/ PatchRequests # {}

\* C35: savingTicketPatches is set only while a trySavePatches is under way.
C35_FlushGuardReleased == savingTicketPatches => FlushActive

----------------------------------------------------------------------------
(* Properties of the versions of the stored orders *)

\* C36: no step replaces the stored order of an id by one with a smaller
\* updatedAt.
C36_StoreNeverRegresses ==
    [][\A old \in orders : \A new \in orders' :
          new.id = old.id => new.updatedAt >= old.updatedAt]_vars

----------------------------------------------------------------------------
(* Properties of the persisted cursor *)

\* the writes of the pages of a stream that have not ended
PendingWrites(stream) ==
    NumWrites(waiting \o txq, stream, PageStoreOps \cup CursorStoreOps)

\* C37: when no refresh of a stream is running, no write of its pages is
\* pending and the cursor in memory has been loaded or set, a read of the
\* persisted cursor gives the cursor in memory.
C37_PersistedCursorIsMemoryCursor ==
    \A s \in Streams :
        (LoopsActive(s) = 0 /\ PendingWrites(s) = 0 /\ Cursor(s) # Undefined)
            => ReadCursor(s) = Cursor(s)

----------------------------------------------------------------------------
(* Properties of a failed open *)

\* C38: once the open of the database has failed, the manager keeps the
\* rejected promise and opens nothing, has no connection and no caller
\* waiting for one; every store method called since rejects, every one that
\* ends does so with the storage error, and the four stores stay as they are;
\* only a new manager leaves that state.
C38_FailedOpenIsFinal ==
    [][(databasePromise = "rejected" /\ last'.ev # "restart") =>
          /\ databasePromise' = "rejected"
          /\ ~database'
          /\ opens' = opens
          /\ waiting' = << >>
          /\ \A i \in DOMAIN txq' : txq'[i].doomed
          /\ Len(txq') < Len(txq) => last'.err = "storage"
          /\ orders' = orders /\ tickets' = tickets
          /\ ticketPatches' = ticketPatches /\ settings' = settings]_vars

\* after the one open of the manager has failed, a page of a refresh has
\* arrived and its two store writes reject
C38_Witness ==
    /\ databasePromise = "rejected"
    /\ opens = 1
    /\ last.ev = "page"
    /\ Len(txq) = 2
    /\ \A i \in DOMAIN txq : txq[i].doomed

----------------------------------------------------------------------------
(* Properties of the reads of the orders and of the listeners of patchOrders *)

\* getOrdersFromDatabase resolves with every order of the store, once each
\* and by id
OrdersReadByKey ==
    [][last'.ev = "ordersRead" =>
          /\ Range(last'.items) = orders
          /\ Len(last'.items) = Cardinality(orders)
          /\ \A i \in 1..(Len(last'.items) - 1) :
                last'.items[i].id < last'.items[i + 1].id]_vars

\* a read found two orders
OrdersReadTwo == last.ev = "ordersRead" /\ Len(last.items) = 2

\* getOrderFromDatabase resolves with the stored order of the id, and with
\* undefined when the store has none
OrderReadOfId ==
    [][last'.ev = "orderRead" =>
          \E i \in DOMAIN txq :
             /\ txq[i].op = "getOrder"
             /\ txq' = Remove(txq, i)
             /\ IF \E o \in orders : o.id = txq[i].items[1].id
                THEN last'.items[1] \in orders /\ last'.items[1].id = txq[i].items[1].id
                ELSE last'.items = << UndefinedOrder >>]_vars

\* a read of an order that is not stored, beside stored orders
OrderReadUndefined ==
    last.ev = "orderRead" /\ last.items = << UndefinedOrder >> /\ orders # {}

\* patchOrders settles in the step that sends the page exactly when no
\* listener is still at work, and then throws exactly when a listener threw;
\* the page is sent either way
PatchOrdersAwaitsListeners ==
    [][last'.ev \in {"ordersPatchStored", "ordersPatchStoreFailed"} =>
          /\ last'.sent = << last'.items >>
          /\ last'.outcome = "pending" <=> listening' = Append(listening, last'.items)
          /\ last'.outcome # "pending" => listening' = listening
          /\ last'.outcome = "rejected" <=> last'.err = "listener"]_vars

\* patchOrders threw what a listener threw, after its orders were stored
PatchOrdersRejectedByListener ==
    /\ last.ev = "ordersPatchSent"
    /\ last.outcome = "rejected"
    /\ Range(last.items) \subseteq orders

----------------------------------------------------------------------------
(* Properties of MemberManager without the organization's key *)

\* C39: without an item of the organization's key in the keychain both
\* methods throw "Missing organization keychain", return no member and unseal
\* nothing, whatever the items are; with the item they return, also when an
\* item cannot be decrypted.
C39_MissingKeychainThrows ==
    call.fn \in DecryptFns =>
        /\ ~call.keychain =>
              /\ ret = Err("Missing organization keychain")
              /\ ~loaded
              /\ Suspended = << >> /\ sessionWait = << >>
        /\ call.keychain => ret.ok /\ Len(ret.val) = Len(call.data)

\* without the keychain item, a batch of two members whose envelopes are good
\* was refused
C39_Witness ==
    /\ call.fn = "decryptMembersWithoutRegistrations"
    /\ ~call.keychain
    /\ Len(call.data) = 2
    /\ \A i \in DOMAIN call.data : call.data[i].kind = "ok"
    /\ ~ret.ok

----------------------------------------------------------------------------
(* Properties of ChoicesFilter *)

\* C40: doesMatch returns true for a filter without chosen ids; otherwise, in
\* mode Or, it returns true exactly when a chosen id is among the values of
\* the object, and in mode And exactly when every chosen id is.
C40_DoesMatchIsSetSemantics ==
    call.fn = "doesMatch" =>
        LET chosen == Range(call.choiceIds)
            values == Range(call.ids)
        IN  /\ ret.ok
            /\ ret.val <=> \/ chosen = {}
                           \/ call.mode = "Or" /\ chosen \cap values # {}
                           \/ call.mode = "And" /\ chosen \subseteq values

\* an Or filter whose second chosen id is the second value of the object has
\* matched
C40_Witness ==
    /\ call.fn = "doesMatch"
    /\ call.mode = "Or"
    /\ call.choiceIds = << "a", "b" >>
    /\ call.ids = << "c", "b" >>
    /\ ret.val

====
